---- MODULE Spec2Model ----
(***************************************************************************)
(* A model of monasca_agent/collector/checks_d/kubernetes.py: one polling  *)
(* cycle of the Kubernetes check (health probe, pod list, cAdvisor        *)
(* documents, correlation, aggregation, flush), step by step.             *)
(*                                                                         *)
(* Python values are modelled as follows.                                  *)
(*   str        a TLA+ string ("in", "+", split and join are computed on   *)
(*              the characters)                                            *)
(*   dict that is only indexed (dimension sets, JSON objects, the two      *)
(*              dimension maps): a function; "k in d" is k \in DOMAIN d    *)
(*   dict that is iterated (the two accumulators): an insertion-ordered    *)
(*              dictionary [keys |-> <<...>>, val |-> function]            *)
(*   list       a sequence                                                 *)
(*   None       PyNone where a number is expected, the string "None"       *)
(*              where a string is expected                                 *)
(***************************************************************************)
EXTENDS Integers, Sequences, FiniteSets, TLC

(***************************************************************************)
(* Bounds of the model.                                                    *)
(***************************************************************************)
\* pods in one pod-list response
MaxPods == 2
\* entries in one cAdvisor stats document
MaxEntries == 2
\* largest restartCount of a container status
MaxRestart == 1
\* cycles told apart by the count of check() calls; later ones count as the last
MaxRuns == 2

(***************************************************************************)
(* Python helpers.                                                         *)
(***************************************************************************)
\* the value None where the code hands a number to the emission sink
PyNone == -1

EmptyDict == [k \in {} |-> ""]

\* d[k] = v
DictSet(d, k, v) == [x \in (DOMAIN d) \cup {k} |-> IF x = k THEN v ELSE d[x]]

\* d.update(e)
DictUpdate(d, e) == [x \in (DOMAIN d) \cup (DOMAIN e) |-> IF x \in DOMAIN e THEN e[x] ELSE d[x]]

\* del d[k]
DictDel(d, k) == [x \in (DOMAIN d) \ {k} |-> d[x]]

\* an empty insertion-ordered dictionary
\* the set S with its elements enumerated once
SetOf(S) == {x : x \in S}

OEmpty == [keys |-> <<>>, val |-> EmptyDict]

OHas(d, k) == k \in DOMAIN d.val

\* d[k] = v on an insertion-ordered dictionary: a new key goes last
OPut(d, k, v) == [keys |-> IF OHas(d, k) THEN d.keys ELSE Append(d.keys, k),
                  val |-> DictSet(d.val, k, v)]

\* the character of s at position i (1-based)
CharAt(s, i) == SubSeq(s, i, i)

\* Python's  a in s  on two strings: a occurs in s as a substring
StrIn(a, s) == \E i \in 1..(Len(s) - Len(a) + 1) : SubSeq(s, i, i + Len(a) - 1) = a

\* the positions of the one-character string c in s
Positions(c, s) == {i \in 1..Len(s) : CharAt(s, i) = c}

Max(S) == CHOOSE x \in S : \A y \in S : y <= x

Min(S) == CHOOSE x \in S : \A y \in S : x <= y

\* s.split(sep)[-1] for a non-empty separator
SplitLast(s, sep) ==
    LET hits == {i \in 1..(Len(s) - Len(sep) + 1) : SubSeq(s, i, i + Len(sep) - 1) = sep}
    IN  IF hits = {} THEN s ELSE SubSeq(s, Max(hits) + Len(sep), Len(s))

\* s.split(c)[0] for a one-character separator
SplitFirst(s, c) ==
    IF Positions(c, s) = {} THEN s ELSE SubSeq(s, 1, Min(Positions(c, s)) - 1)

\* c.join(s.split(c)[:-1]) for a one-character separator: s up to its last c,
\* and the empty string when s holds no c
JoinAllButLast(s, c) ==
    IF Positions(c, s) = {} THEN "" ELSE SubSeq(s, 1, Max(Positions(c, s)) - 1)

Digits == <<"0", "1", "2", "3", "4", "5", "6", "7", "8", "9">>

IsDigit(c) == \E d \in 1..10 : Digits[d] = c

DigitValue(c) == (CHOOSE d \in 1..10 : Digits[d] = c) - 1

\* s is a non-empty string of decimal digits
IsNumber(s) == Len(s) > 0 /\ \A i \in 1..Len(s) : IsDigit(CharAt(s, i))

RECURSIVE ParseNumber(_)
\* float(s) for a string of decimal digits
ParseNumber(s) ==
    IF Len(s) = 0 THEN 0
    ELSE 10 * ParseNumber(SubSeq(s, 1, Len(s) - 1)) + DigitValue(CharAt(s, Len(s)))

(***************************************************************************)
(* Module constants of kubernetes.py.                                      *)
(***************************************************************************)
\* POD_PHASE.get(phase): None for a phase the table does not list
POD_PHASE == [Succeeded |-> 0, Running |-> 1, Pending |-> 2, Failed |-> 3, Unknown |-> 4]

PodPhaseGet(phase) == IF phase \in DOMAIN POD_PHASE THEN POD_PHASE[phase] ELSE PyNone

REPORT_CONTAINER_METRICS == FALSE

\* CADVISOR_METRICS: each section's (cadvisor key, metric name) pairs in the
\* order the table lists them
CADVISOR_METRICS ==
    [cpu_metrics |-> << <<"system", "cpu.system_time">>,
                        <<"total", "cpu.total_time">>,
                        <<"user", "cpu.user_time">> >>,
     memory_metrics |-> << <<"rss", "mem.rss_bytes">>,
                           <<"swap", "mem.swap_bytes">>,
                           <<"cache", "mem.cache_bytes">>,
                           <<"usage", "mem.used_bytes">>,
                           <<"failcnt", "mem.fail_count">> >>,
     filesystem_metrics |-> << <<"capacity", "fs.total_bytes">>,
                               <<"usage", "fs.usage_bytes">>,
                               <<"writes_completed", "fs.writes">>,
                               <<"reads_completes", "fs.reads">>,
                               <<"io_in_progress", "fs.io_current">> >>,
     network_metrics |-> << <<"rx_bytes", "net.in_bytes">>,
                            <<"tx_bytes", "net.out_bytes">>,
                            <<"rx_packets", "net.in_packets">>,
                            <<"tx_packets", "net.out_packets">>,
                            <<"rx_dropped", "net.in_dropped_packets">>,
                            <<"tx_dropped", "net.out_dropped_packets">>,
                            <<"rx_errors", "net.in_errors">>,
                            <<"tx_errors", "net.out_errors">> >>]

GaugeRate == <<"gauge", "rate">>

GaugeOnly == <<"gauge">>

\* METRIC_TYPES_UNITS[metric name] = <<metric types, metric units>>
METRIC_TYPES_UNITS ==
    [n \in {"cpu.system_time", "cpu.total_time", "cpu.user_time"}
        |-> <<GaugeRate, <<"core_seconds", "cores_seconds_per_second">> >>]
    @@ [n \in {"mem.rss_bytes", "mem.swap_bytes", "mem.cache_bytes", "mem.used_bytes",
               "fs.total_bytes", "fs.usage_bytes", "fs.io_current"}
        |-> <<GaugeOnly, <<"bytes">> >>]
    @@ [n \in {"mem.fail_count"} |-> <<GaugeOnly, <<"count">> >>]
    @@ [n \in {"fs.writes", "fs.reads", "net.in_bytes", "net.out_bytes"}
        |-> <<GaugeRate, <<"bytes", "bytes_per_second">> >>]
    @@ [n \in {"net.in_packets", "net.out_packets", "net.in_dropped_packets",
               "net.out_dropped_packets"}
        |-> <<GaugeRate, <<"packets", "packets_per_second">> >>]
    @@ [n \in {"net.in_errors", "net.out_errors"}
        |-> <<GaugeRate, <<"errors", "errors_per_second">> >>]

\* the divisor of _parse_cpu: nanoseconds in a second
NanosPerSecond == 1000000000

\* cpu_usage[cadvisor_key] / 1000000000 on the integers the JSON document holds
CpuUsageSec(nanos) == nanos \div NanosPerSecond

\* _convert_cpu_to_cores, in cores: "2000m" is 2, "3" is 3
ConvertCpuToCores(cpu_string) ==
    IF StrIn("m", cpu_string)
    THEN ParseNumber(SplitFirst(cpu_string, "m")) \div 1000
    ELSE ParseNumber(cpu_string)

\* the multiplier of a memory suffix
MemorySuffix == [Ki |-> 1024, Mi |-> 1048576, K |-> 1000, M |-> 1000000]

\* utils.convert_memory_string_to_bytes: a magnitude and an optional suffix
ConvertMemoryStringToBytes(memory_string) ==
    LET n == Len(memory_string)
        two == IF n > 2 THEN SubSeq(memory_string, n - 1, n) ELSE ""
        one == IF n > 1 THEN SubSeq(memory_string, n, n) ELSE ""
    IN  IF two \in DOMAIN MemorySuffix
        THEN ParseNumber(SubSeq(memory_string, 1, n - 2)) * MemorySuffix[two]
        ELSE IF one \in DOMAIN MemorySuffix
        THEN ParseNumber(SubSeq(memory_string, 1, n - 1)) * MemorySuffix[one]
        ELSE ParseNumber(memory_string)

(***************************************************************************)
(* The emission sink: one record per self.gauge / self.rate call.         *)
(***************************************************************************)
\* dimensions is the value of the dictionary at the time of the call
Sample(name, value, dimensions, type, hostname) ==
    [name |-> name, value |-> value, dimensions |-> dimensions, type |-> type,
     hostname |-> hostname]

\* hostname="SUPPRESS" if "pod_name" in dimensions else None
HostnameArg(dimensions) == IF "pod_name" \in DOMAIN dimensions THEN "SUPPRESS" ELSE "None"

\* list.index(x)
IndexOf(seq, x) == Min({i \in 1..Len(seq) : seq[i] = x})

RECURSIVE SendMetricsFrom(_, _, _, _, _, _)
\* the loop of _send_metrics from metric type i on: the samples emitted and the
\* dictionary passed as dimensions, which every iteration updates in place
SendMetricsFrom(i, metric_name, value, dimensions, metric_types, metric_units) ==
    IF i > Len(metric_types) THEN [out |-> <<>>, dims |-> dimensions]
    ELSE LET metric_type == metric_types[i]
             d == IF metric_type \in {"rate", "gauge"}
                  THEN DictSet(dimensions, "unit",
                               metric_units[IndexOf(metric_types, metric_type)])
                  ELSE dimensions
             here == IF metric_type = "rate"
                     THEN <<Sample(metric_name \o "_sec", value, d, "rate", HostnameArg(d))>>
                     ELSE IF metric_type = "gauge"
                     THEN <<Sample(metric_name, value, d, "gauge", HostnameArg(d))>>
                     ELSE <<>>
             rest == SendMetricsFrom(i + 1, metric_name, value, d, metric_types, metric_units)
         IN  [out |-> here \o rest.out, dims |-> rest.dims]

\* _send_metrics(metric_name, value, dimensions, metric_types, metric_units)
SendMetrics(metric_name, value, dimensions, metric_types, metric_units) ==
    SendMetricsFrom(1, metric_name, value, dimensions, metric_types, metric_units)

\* _send_metrics with the catalog entry of metric_name, under the name prefix
SendCatalogued(prefix, metric_name, value, dimensions) ==
    SendMetrics(prefix \o metric_name, value, dimensions,
                METRIC_TYPES_UNITS[metric_name][1], METRIC_TYPES_UNITS[metric_name][2])

(***************************************************************************)
(* Owner resolver and dimension builder.  An optional string is a          *)
(* sequence: <<>> is None, <<s>> is the string s.                          *)
(***************************************************************************)
\* the annotation that marks a ReplicaSet as managed by a Deployment
RevisionAnnotation == "deployment.kubernetes.io/revision"

\* the answer of kubernetes_connector.get_request: an exception, or the JSON object
RaisedResponse == [raised |-> TRUE]

JsonResponse(obj) == [raised |-> FALSE, json |-> obj]

\* _get_deployment_name(pod_owner_name, pod_namespace), given the connector's answer
GetDeploymentName(pod_owner_name, response) ==
    IF response.raised THEN <<>>
    ELSE IF "metadata" \notin DOMAIN response.json THEN <<>>
    ELSE IF "annotations" \notin DOMAIN response.json.metadata THEN <<>>
    ELSE IF RevisionAnnotation \in DOMAIN response.json.metadata.annotations
    THEN <<JoinAllButLast(pod_owner_name, "-")>>
    ELSE <<>>

\* a variant of NotDeploymentName: only None counts as no deployment name
NotDeploymentNameNone(deployment_name) == deployment_name = <<>>

\* not deployment_name
NotDeploymentName(deployment_name) == deployment_name = <<>> \/ deployment_name[1] = ""

\* a variant of SetPodOwnerDimension: a Deployment-managed ReplicaSet is
\* reported under both keys
SetPodOwnerDimensionBoth(pod_dimensions, pod_owner_type, pod_owner_name, connector, response) ==
    IF pod_owner_type = "ReplicationController"
    THEN DictSet(pod_dimensions, "replication_controller", pod_owner_name)
    ELSE IF pod_owner_type = "ReplicaSet"
    THEN LET deployment_name == IF ~connector THEN <<>>
                                ELSE GetDeploymentName(pod_owner_name, response)
         IN  IF NotDeploymentName(deployment_name)
             THEN DictSet(pod_dimensions, "replica_set", pod_owner_name)
             ELSE DictSet(DictSet(pod_dimensions, "replica_set", pod_owner_name),
                          "deployment", deployment_name[1])
    ELSE IF pod_owner_type = "DaemonSet"
    THEN DictSet(pod_dimensions, "daemon_set", pod_owner_name)
    ELSE pod_dimensions

\* _set_pod_owner_dimension: the pod dimensions after the call.  connector is
\* whether self.kubernetes_connector is set; response is its answer when asked
SetPodOwnerDimension(pod_dimensions, pod_owner_type, pod_owner_name, connector, response) ==
    IF pod_owner_type = "ReplicationController"
    THEN DictSet(pod_dimensions, "replication_controller", pod_owner_name)
    ELSE IF pod_owner_type = "ReplicaSet"
    THEN LET deployment_name == IF ~connector THEN <<>>
                                ELSE GetDeploymentName(pod_owner_name, response)
         IN  IF NotDeploymentName(deployment_name)
             THEN DictSet(pod_dimensions, "replica_set", pod_owner_name)
             ELSE DictSet(pod_dimensions, "deployment", deployment_name[1])
    ELSE IF pod_owner_type = "DaemonSet"
    THEN DictSet(pod_dimensions, "daemon_set", pod_owner_name)
    ELSE pod_dimensions

\* the text of an annotation: JSON text that encodes obj, or text that is no JSON
JsonText(obj) == [isJson |-> TRUE, value |-> obj]

NotJsonText == [isJson |-> FALSE]

CreatedByAnnotation == "kubernetes.io/created-by"

RECURSIVE CopyLabels(_, _, _, _)
\* the label loop of _get_pod_dimensions from label i on
CopyLabels(i, kubernetes_labels, pod_labels, pod_dimensions) ==
    IF i > Len(kubernetes_labels) THEN pod_dimensions
    ELSE CopyLabels(i + 1, kubernetes_labels, pod_labels,
                    IF kubernetes_labels[i] \in DOMAIN pod_labels
                    THEN DictSet(pod_dimensions, kubernetes_labels[i],
                                 pod_labels[kubernetes_labels[i]])
                    ELSE pod_dimensions)

\* the owner (kind, name) _get_pod_dimensions reads, <<>> when its try block
\* raises before _set_pod_owner_dimension is called
PodOwner(pod_metadata) ==
    LET refs == IF "ownerReferences" \in DOMAIN pod_metadata
                THEN pod_metadata.ownerReferences ELSE <<>>
    IN  IF refs # <<>>
        THEN IF "kind" \in DOMAIN refs[1] /\ "name" \in DOMAIN refs[1]
             THEN <<refs[1].kind, refs[1].name>>
             ELSE <<>>
        ELSE IF "annotations" \notin DOMAIN pod_metadata THEN <<>>
        ELSE IF CreatedByAnnotation \notin DOMAIN pod_metadata.annotations THEN <<>>
        ELSE LET text == pod_metadata.annotations[CreatedByAnnotation]
             IN  IF ~text.isJson THEN <<>>
                 ELSE IF "reference" \notin DOMAIN text.value THEN <<>>
                 ELSE IF "kind" \in DOMAIN text.value.reference
                         /\ "name" \in DOMAIN text.value.reference
                 THEN <<text.value.reference.kind, text.value.reference.name>>
                 ELSE <<>>

\* whether _get_pod_dimensions asks the API for the ReplicaSet of this pod
AsksReplicaSet(pod_metadata, connector) ==
    connector /\ PodOwner(pod_metadata) # <<>> /\ PodOwner(pod_metadata)[1] = "ReplicaSet"

\* _get_pod_dimensions(pod_metadata, kubernetes_labels)
GetPodDimensions(pod_metadata, kubernetes_labels, connector, response) ==
    LET base == [pod_name |-> pod_metadata.name, namespace |-> pod_metadata.namespace]
        labelled == IF "labels" \in DOMAIN pod_metadata
                    THEN CopyLabels(1, kubernetes_labels, pod_metadata.labels, base)
                    ELSE base
        owner == PodOwner(pod_metadata)
    IN  IF owner = <<>> THEN labelled
        ELSE SetPodOwnerDimension(labelled, owner[1], owner[2], connector, response)

(***************************************************************************)
(* Pod-list processing.                                                    *)
(***************************************************************************)
\* container_status.get('containerID', '').split('//')[-1]
ContainerIdOf(container_status) ==
    SplitLast(IF "containerID" \in DOMAIN container_status
              THEN container_status.containerID ELSE "", "//")

RECURSIVE ProcessStatuses(_, _, _, _, _)
\* the container-status loop of _process_pods from status i on; st holds the
\* container dimension map, name2id, the samples emitted and pod_retry_count
ProcessStatuses(i, container_statuses, pod_dimensions, report, st) ==
    IF i > Len(container_statuses) THEN st
    ELSE LET container_status == container_statuses[i]
             container_dimensions ==
                 DictSet(DictSet(pod_dimensions, "container_name", container_status.name),
                         "image", container_status.image)
             container_id == ContainerIdOf(container_status)
             container_ready == IF container_status.ready THEN 0 ELSE 1
             gauges == IF report
                       THEN <<Sample("container.ready_status", container_ready,
                                     container_dimensions, "gauge", "SUPPRESS"),
                              Sample("container.restart_count", container_status.restartCount,
                                     container_dimensions, "gauge", "SUPPRESS")>>
                       ELSE <<>>
         IN  ProcessStatuses(i + 1, container_statuses, pod_dimensions, report,
                 [cdm |-> DictSet(st.cdm, container_id, container_dimensions),
                  name2id |-> DictSet(st.name2id, container_status.name, container_id),
                  out |-> st.out \o gauges,
                  retry |-> st.retry + container_status.restartCount])

\* one try block of _report_container_limits: the gauges for
\* container['resources'][section], none when a key is missing (KeyError, caught)
ResourceGauges(container, section, cpu_name, memory_name, container_dimensions) ==
    IF "resources" \notin DOMAIN container THEN <<>>
    ELSE IF section \notin DOMAIN container.resources THEN <<>>
    ELSE LET r == container.resources[section]
         IN  (IF "cpu" \in DOMAIN r
              THEN <<Sample(cpu_name, ConvertCpuToCores(r.cpu), container_dimensions,
                            "gauge", "SUPPRESS")>>
              ELSE <<>>)
             \o
             (IF "memory" \in DOMAIN r
              THEN <<Sample(memory_name, ConvertMemoryStringToBytes(r.memory),
                            container_dimensions, "gauge", "SUPPRESS")>>
              ELSE <<>>)

RECURSIVE ReportContainerLimits(_, _, _, _, _)
\* _report_container_limits from spec container i on: the samples emitted, and
\* whether name2id[container_name] raised KeyError (outside both try blocks)
ReportContainerLimits(i, pod_containers, container_dimension_map, name2id, out) ==
    IF i > Len(pod_containers) THEN [out |-> out, raised |-> FALSE]
    ELSE LET container == pod_containers[i]
         IN  IF container.name \notin DOMAIN name2id THEN [out |-> out, raised |-> TRUE]
             ELSE LET container_dimensions == container_dimension_map[name2id[container.name]]
                  IN  ReportContainerLimits(i + 1, pod_containers, container_dimension_map,
                          name2id,
                          out \o ResourceGauges(container, "limits", "container.cpu.limit",
                                                "container.memory.limit_bytes",
                                                container_dimensions)
                              \o ResourceGauges(container, "requests", "container.request.cpu",
                                                "container.request.memory_bytes",
                                                container_dimensions))

\* pod_dimensions['pod_name'] + pod_dimensions['namespace']
PodKeyOf(dimensions) == dimensions.pod_name \o dimensions.namespace

\* not pod_containers or not container_statuses
PodSkipped(pod) ==
    IF "containers" \notin DOMAIN pod.spec THEN TRUE
    ELSE IF pod.spec.containers = <<>> THEN TRUE
    ELSE IF "containerStatuses" \notin DOMAIN pod.status THEN TRUE
    ELSE pod.status.containerStatuses = <<>>

\* the body of the loop of _process_pods for one pod that is not skipped: the
\* two dimension maps, the samples emitted by it, and whether it raised
ProcessPod(pod, kubernetes_labels, dimensions, cdm, pdm, report, connector, response) ==
    LET pod_dimensions ==
            DictUpdate(dimensions,
                       GetPodDimensions(pod.metadata, kubernetes_labels, connector, response))
        pod_key == PodKeyOf(pod_dimensions)
        st == ProcessStatuses(1, pod.status.containerStatuses, pod_dimensions, report,
                              [cdm |-> cdm, name2id |-> EmptyDict, out |-> <<>>, retry |-> 0])
        limits == IF report
                  THEN ReportContainerLimits(1, pod.spec.containers, st.cdm, st.name2id, st.out)
                  ELSE [out |-> st.out, raised |-> FALSE]
    IN  [cdm |-> st.cdm,
         pdm |-> DictSet(pdm, pod_key, pod_dimensions),
         raised |-> limits.raised,
         out |-> IF limits.raised THEN limits.out
                 ELSE limits.out
                      \o <<Sample("pod.restart_count", st.retry, pod_dimensions,
                                  "gauge", "SUPPRESS"),
                           Sample("pod.phase", PodPhaseGet(pod.status.phase), pod_dimensions,
                                  "gauge", "SUPPRESS")>>]

(***************************************************************************)
(* Container processing: correlation, extraction, aggregation.  A pod_key  *)
(* is an optional string: <<>> is None.                                    *)
(***************************************************************************)
\* if pod_key:
Truthy(pod_key) == pod_key # <<>> /\ pod_key[1] # ""

\* a variant of AddPodMetric: a later value replaces the sum
AddPodMetricOverwrite(metric_name, metric_value, pod_key, pod_metrics) ==
    IF ~Truthy(pod_key) THEN pod_metrics
    ELSE LET k == pod_key[1]
             mine == IF OHas(pod_metrics, k) THEN pod_metrics.val[k] ELSE OEmpty
         IN  OPut(pod_metrics, k, OPut(mine, metric_name, metric_value))

\* _add_pod_metric(metric_name, metric_value, pod_key, pod_metrics)
AddPodMetric(metric_name, metric_value, pod_key, pod_metrics) ==
    IF ~Truthy(pod_key) THEN pod_metrics
    ELSE LET k == pod_key[1]
             mine == IF OHas(pod_metrics, k) THEN pod_metrics.val[k] ELSE OEmpty
         IN  OPut(pod_metrics, k,
                  OPut(mine, metric_name,
                       IF OHas(mine, metric_name)
                       THEN mine.val[metric_name] + metric_value
                       ELSE metric_value))

\* a variant of AddPodNetMetric: the sums are kept per pod, not per interface
AddPodNetMetricLumped(metric_name, metric_value, network_interface, pod_key, pod_net_metrics) ==
    IF ~Truthy(pod_key) THEN pod_net_metrics
    ELSE LET k == pod_key[1]
             mine == IF OHas(pod_net_metrics, k) THEN pod_net_metrics.val[k] ELSE OEmpty
             first == IF mine.keys = <<>> THEN network_interface ELSE mine.keys[1]
             its == IF OHas(mine, first) THEN mine.val[first] ELSE OEmpty
         IN  OPut(pod_net_metrics, k,
                  OPut(mine, first,
                       OPut(its, metric_name,
                            IF OHas(its, metric_name)
                            THEN its.val[metric_name] + metric_value
                            ELSE metric_value)))

\* the accumulation of _parse_network:
\* pod_net_metrics[pod_key][network_interface][metric_name] += metric_value
AddPodNetMetric(metric_name, metric_value, network_interface, pod_key, pod_net_metrics) ==
    IF ~Truthy(pod_key) THEN pod_net_metrics
    ELSE LET k == pod_key[1]
             mine == IF OHas(pod_net_metrics, k) THEN pod_net_metrics.val[k] ELSE OEmpty
             its == IF OHas(mine, network_interface) THEN mine.val[network_interface]
                    ELSE OEmpty
         IN  OPut(pod_net_metrics, k,
                  OPut(mine, network_interface,
                       OPut(its, metric_name,
                            IF OHas(its, metric_name)
                            THEN its.val[metric_name] + metric_value
                            ELSE metric_value)))

\* the first alias that occurs in the key of the stats entry, "" when none does
MatchedAlias(container, aliases) ==
    LET hits == {i \in 1..Len(aliases) : StrIn(aliases[i], container)}
    IN  IF hits = {} THEN "" ELSE aliases[Min(hits)]

PodNameLabel == "io.kubernetes.pod.name"

PodNamespaceLabel == "io.kubernetes.pod.namespace"

ContainerNameLabel == "io.kubernetes.container.name"

\* a variant of LabelPodKey: the key is formed namespace first
LabelPodKeySwapped(container_spec, pod_dimension_map) ==
    IF "labels" \notin DOMAIN container_spec THEN <<>>
    ELSE IF PodNamespaceLabel \notin DOMAIN container_spec.labels THEN <<>>
    ELSE IF PodNameLabel \notin DOMAIN container_spec.labels THEN <<>>
    ELSE LET pod_key == container_spec.labels[PodNamespaceLabel]
                        \o container_spec.labels[PodNameLabel]
         IN  IF pod_key \in DOMAIN pod_dimension_map THEN <<pod_key>> ELSE <<>>

\* _get_container_dimensions, lines 410-421: the pod_key the labels of the spec
\* give, None when a label is missing or the pod dimension map lacks the key
LabelPodKey(container_spec, pod_dimension_map) ==
    IF "labels" \notin DOMAIN container_spec THEN <<>>
    ELSE IF PodNamespaceLabel \notin DOMAIN container_spec.labels THEN <<>>
    ELSE IF PodNameLabel \notin DOMAIN container_spec.labels THEN <<>>
    ELSE LET pod_key == container_spec.labels[PodNameLabel]
                        \o container_spec.labels[PodNamespaceLabel]
         IN  IF pod_key \in DOMAIN pod_dimension_map THEN <<pod_key>> ELSE <<>>

\* a variant of AliasPodKey: the key is the pod name alone
AliasPodKeyNameOnly(container_dimensions) == container_dimensions.pod_name

\* _get_container_dimensions, line 401: the pod_key of a container matched by
\* alias, formed from the dimensions stored for the container
AliasPodKey(container_dimensions) == PodKeyOf(container_dimensions)

\* _get_container_dimensions: pod_key and container_dimensions; shared is <<id>>
\* when container_dimensions is the dictionary stored under id in the container
\* dimension map (not a copy); raised when a label lookup raises KeyError
GetContainerDimensions(container, instance_dimensions, container_spec, container_dimension_map, pod_dimension_map) ==
    LET container_id == MatchedAlias(container, container_spec.aliases)
    IN  IF container_id \in DOMAIN container_dimension_map
        THEN [pod_key |-> <<AliasPodKey(container_dimension_map[container_id])>>,
              dims |-> container_dimension_map[container_id],
              shared |-> <<container_id>>,
              raised |-> FALSE]
        ELSE LET own == DictSet(DictSet(instance_dimensions, "image", container_spec.image),
                                "container_name", container_spec.aliases[1])
                 pod_key == LabelPodKey(container_spec, pod_dimension_map)
             IN  IF pod_key = <<>>
                 THEN [pod_key |-> <<>>, dims |-> own, shared |-> <<>>, raised |-> FALSE]
                 ELSE IF ContainerNameLabel \notin DOMAIN container_spec.labels
                 THEN [pod_key |-> pod_key,
                       dims |-> DictUpdate(own, pod_dimension_map[pod_key[1]]),
                       shared |-> <<>>, raised |-> TRUE]
                 ELSE [pod_key |-> pod_key,
                       dims |-> DictSet(DictUpdate(own, pod_dimension_map[pod_key[1]]),
                                        "container_name",
                                        container_spec.labels[ContainerNameLabel]),
                       shared |-> <<>>, raised |-> FALSE]

RECURSIVE ParseScalars(_, _, _, _, _, _, _)
\* the table loop of _parse_memory (nanos = FALSE) and of _parse_cpu (nanos =
\* TRUE) from table row i on; st holds the samples emitted, the dictionary
\* container_dimensions and pod_metrics
ParseScalars(i, table, data, nanos, pod_key, report, st) ==
    IF i > Len(table) THEN st
    ELSE LET cadvisor_key == table[i][1]
             metric_name == table[i][2]
         IN  IF cadvisor_key \notin DOMAIN data
             THEN ParseScalars(i + 1, table, data, nanos, pod_key, report, st)
             ELSE LET metric_value == IF nanos THEN CpuUsageSec(data[cadvisor_key])
                                      ELSE data[cadvisor_key]
                      sent == IF report
                              THEN SendCatalogued("container.", metric_name, metric_value,
                                                  st.dims)
                              ELSE [out |-> <<>>, dims |-> st.dims]
                  IN  ParseScalars(i + 1, table, data, nanos, pod_key, report,
                          [st EXCEPT !.out = st.out \o sent.out,
                                     !.dims = sent.dims,
                                     !.pm = AddPodMetric(metric_name, metric_value,
                                                         pod_key, st.pm)])

\* _parse_memory(memory_data, container_dimensions, pod_key, pod_map)
ParseMemory(memory_data, pod_key, report, st) ==
    ParseScalars(1, CADVISOR_METRICS.memory_metrics, memory_data, FALSE, pod_key, report, st)

\* _parse_cpu(cpu_data, container_dimensions, pod_key, pod_metrics)
ParseCpu(cpu_data, pod_key, report, st) ==
    ParseScalars(1, CADVISOR_METRICS.cpu_metrics, cpu_data.usage, TRUE, pod_key, report, st)

RECURSIVE ParseLeaf(_, _, _, _, _, _, _, _)
\* the table loop of _parse_filesystem (aggregate = FALSE) and of _parse_network
\* (aggregate = TRUE) for one device or interface, from table row i on; leaf is
\* the copy of the container dimensions made for it
ParseLeaf(i, table, data, leaf, aggregate, pod_key, report, st) ==
    IF i > Len(table) THEN st
    ELSE LET cadvisor_key == table[i][1]
             metric_name == table[i][2]
         IN  IF cadvisor_key \notin DOMAIN data
             THEN ParseLeaf(i + 1, table, data, leaf, aggregate, pod_key, report, st)
             ELSE LET sent == IF report
                              THEN SendCatalogued("container.", metric_name,
                                                  data[cadvisor_key], leaf)
                              ELSE [out |-> <<>>, dims |-> leaf]
                  IN  ParseLeaf(i + 1, table, data, sent.dims, aggregate, pod_key, report,
                          [st EXCEPT !.out = st.out \o sent.out,
                                     !.pnm = IF aggregate
                                             THEN AddPodNetMetric(metric_name,
                                                      data[cadvisor_key], data.name,
                                                      pod_key, st.pnm)
                                             ELSE st.pnm])

RECURSIVE ParseFilesystem(_, _, _, _)
\* _parse_filesystem(filesystem_data, container_dimensions) from filesystem i on
ParseFilesystem(i, filesystem_data, report, st) ==
    IF ~report \/ i > Len(filesystem_data) THEN st
    ELSE ParseFilesystem(i + 1, filesystem_data, report,
             ParseLeaf(1, CADVISOR_METRICS.filesystem_metrics, filesystem_data[i],
                       DictSet(st.dims, "device", filesystem_data[i].device),
                       FALSE, <<>>, report, st))

RECURSIVE ParseNetwork(_, _, _, _, _)
\* _parse_network(network_data, container_dimensions, pod_key, pod_net_metrics)
\* from interface i on
ParseNetwork(i, network_interfaces, pod_key, report, st) ==
    IF i > Len(network_interfaces) THEN st
    ELSE ParseNetwork(i + 1, network_interfaces, pod_key, report,
             ParseLeaf(1, CADVISOR_METRICS.network_metrics, network_interfaces[i],
                       DictSet(st.dims, "interface", network_interfaces[i].name),
                       TRUE, pod_key, report, st))

\* a dict or list of the stats document is truthy when it is not empty
NonEmpty(x) == DOMAIN x # {}

\* the body of the loop of _process_containers for one stats entry, once its
\* dimensions are known: st after the four sections, in the order of the code
ExtractContainer(cadvisor_metrics, pod_key, report, st) ==
    LET m == IF cadvisor_metrics.has_memory /\ NonEmpty(cadvisor_metrics.memory)
             THEN ParseMemory(cadvisor_metrics.memory, pod_key, report, st)
             ELSE st
        f == IF /\ cadvisor_metrics.has_filesystem
                /\ "filesystem" \in DOMAIN cadvisor_metrics
                /\ NonEmpty(cadvisor_metrics.filesystem)
             THEN ParseFilesystem(1, cadvisor_metrics.filesystem, report, m)
             ELSE m
        n == IF cadvisor_metrics.has_network /\ NonEmpty(cadvisor_metrics.network)
             THEN ParseNetwork(1, cadvisor_metrics.network.interfaces, pod_key, report, f)
             ELSE f
    IN  IF cadvisor_metrics.has_cpu /\ NonEmpty(cadvisor_metrics.cpu)
        THEN ParseCpu(cadvisor_metrics.cpu, pod_key, report, n)
        ELSE n

RECURSIVE SendPodMetricsOf(_, _, _)
\* the inner loop of send_pod_metrics from metric i of one pod on; dims is the
\* dictionary stored in the pod dimension map, updated in place by _send_metrics
SendPodMetricsOf(i, pod_metrics, dims) ==
    IF i > Len(pod_metrics.keys) THEN [out |-> <<>>, dims |-> dims]
    ELSE LET metric_name == pod_metrics.keys[i]
             sent == SendCatalogued("pod.", metric_name, pod_metrics.val[metric_name], dims)
             rest == SendPodMetricsOf(i + 1, pod_metrics, sent.dims)
         IN  [out |-> sent.out \o rest.out, dims |-> rest.dims]

RECURSIVE SendPodMetrics(_, _, _)
\* send_pod_metrics(pod_metrics_map, pod_dimension_map) from pod key i on: the
\* samples emitted, the pod dimension map after it, and whether
\* pod_dimension_map[pod_key] raised KeyError
SendPodMetrics(i, pod_metrics_map, pod_dimension_map) ==
    IF i > Len(pod_metrics_map.keys)
    THEN [out |-> <<>>, pdm |-> pod_dimension_map, raised |-> FALSE]
    ELSE LET pod_key == pod_metrics_map.keys[i]
         IN  IF pod_key \notin DOMAIN pod_dimension_map
             THEN [out |-> <<>>, pdm |-> pod_dimension_map, raised |-> TRUE]
             ELSE LET sent == SendPodMetricsOf(1, pod_metrics_map.val[pod_key],
                                               pod_dimension_map[pod_key])
                      rest == SendPodMetrics(i + 1, pod_metrics_map,
                                             DictSet(pod_dimension_map, pod_key, sent.dims))
                  IN  [out |-> sent.out \o rest.out, pdm |-> rest.pdm,
                       raised |-> rest.raised]

RECURSIVE SendInterfaceMetrics(_, _, _)
\* the innermost loop of send_network_pod_metrics from metric i of one interface
SendInterfaceMetrics(i, metrics, pod_network_dimensions) ==
    IF i > Len(metrics.keys) THEN <<>>
    ELSE LET metric_name == metrics.keys[i]
             sent == SendCatalogued("pod.", metric_name, metrics.val[metric_name],
                                    pod_network_dimensions)
         IN  sent.out \o SendInterfaceMetrics(i + 1, metrics, sent.dims)

RECURSIVE SendPodInterfaces(_, _, _)
\* the interface loop of send_network_pod_metrics from interface i of one pod
SendPodInterfaces(i, network_interfaces, pod_dimensions) ==
    IF i > Len(network_interfaces.keys) THEN <<>>
    ELSE LET network_interface == network_interfaces.keys[i]
         IN  SendInterfaceMetrics(1, network_interfaces.val[network_interface],
                                  DictSet(pod_dimensions, "interface", network_interface))
             \o SendPodInterfaces(i + 1, network_interfaces, pod_dimensions)

RECURSIVE SendNetworkPodMetrics(_, _, _)
\* send_network_pod_metrics(pod_network_metrics, pod_dimension_map) from pod
\* key i on
SendNetworkPodMetrics(i, pod_network_metrics, pod_dimension_map) ==
    IF i > Len(pod_network_metrics.keys) THEN [out |-> <<>>, raised |-> FALSE]
    ELSE LET pod_key == pod_network_metrics.keys[i]
         IN  IF pod_key \notin DOMAIN pod_dimension_map
             THEN [out |-> <<>>, raised |-> TRUE]
             ELSE LET rest == SendNetworkPodMetrics(i + 1, pod_network_metrics,
                                                    pod_dimension_map)
                  IN  [out |-> SendPodInterfaces(1, pod_network_metrics.val[pod_key],
                                                 pod_dimension_map[pod_key])
                               \o rest.out,
                       raised |-> rest.raised]

(***************************************************************************)
(* The responses the kubelet answers GET /pods with.                       *)
(***************************************************************************)
\* one element of status.containerStatuses; id is <<>> when the status carries
\* no containerID
Status(name, id, restartCount) ==
    LET base == [name |-> name, image |-> "img:" \o name, restartCount |-> restartCount,
                 ready |-> (restartCount = 0)]
    IN  IF id = <<>> THEN base ELSE DictSet(base, "containerID", "docker://" \o id[1])

\* one element of spec.containers with both resource sections
Container(name) ==
    [name |-> name,
     resources |-> [limits |-> [cpu |-> "2000m", memory |-> "1Ki"],
                    requests |-> [cpu |-> "1", memory |-> "2K"]]]

Pod(metadata, phase, containers, containerStatuses) ==
    [metadata |-> metadata,
     spec |-> [containers |-> containers],
     status |-> [phase |-> phase, containerStatuses |-> containerStatuses]]

Meta(name, namespace) == [name |-> name, namespace |-> namespace]

Owner(kind, name) == [kind |-> kind, name |-> name]

CreatedBy(text) == (CreatedByAnnotation :> text)

OwnerKinds == {"ReplicationController", "ReplicaSet", "DaemonSet", "Job"}

OwnerNames == {"web-7d9f8c6b8", "web"}

\* the metadata of pod "a" in namespace "c" with every shape of owner information
OwnerMetadata ==
    {Meta("a", "c")}
    \cup {DictSet(Meta("a", "c"), "ownerReferences", <<Owner(k, n)>>) :
              k \in OwnerKinds, n \in OwnerNames}
    \cup {DictSet(Meta("a", "c"), "ownerReferences",
                  <<Owner("ReplicaSet", "web-7d9f8c6b8"), Owner("DaemonSet", "fluentd")>>),
          DictSet(Meta("a", "c"), "ownerReferences", <<[name |-> "web"]>>),
          DictSet(DictSet(Meta("a", "c"), "ownerReferences", <<[name |-> "web"]>>),
                  "annotations",
                  CreatedBy(JsonText([reference |-> Owner("ReplicationController", "rc")]))),
          DictSet(DictSet(Meta("a", "c"), "ownerReferences", <<Owner("DaemonSet", "fluentd")>>),
                  "annotations",
                  CreatedBy(JsonText([reference |-> Owner("ReplicationController", "rc")]))),
          DictSet(DictSet(Meta("a", "c"), "ownerReferences", <<>>),
                  "annotations",
                  CreatedBy(JsonText([reference |-> Owner("ReplicationController", "rc")]))),
          DictSet(Meta("a", "c"), "annotations", ("other" :> NotJsonText)),
          DictSet(Meta("a", "c"), "annotations", CreatedBy(NotJsonText)),
          DictSet(Meta("a", "c"), "annotations", CreatedBy(JsonText([kind |-> "Pod"]))),
          DictSet(Meta("a", "c"), "labels", [app |-> "shop", tier |-> "db"]),
          DictSet(Meta("a", "c"), "labels", [tier |-> "db"])}
    \cup {DictSet(Meta("a", "c"), "annotations",
                  CreatedBy(JsonText([reference |-> Owner(k, "web-7d9f8c6b8")]))) :
              k \in {"ReplicaSet", "DaemonSet"}}

\* pods that differ in their owner information only
OwnerPods == {Pod(m, "Running", <<Container("c1")>>, <<Status("c1", <<"i1">>, 0)>>) :
                  m \in OwnerMetadata}

\* two pods whose keys collide ("ab" + "c" = "a" + "bc"), a pod with two
\* containers, and a pod whose container status carries no containerID
KeyPods ==
    {Pod(Meta("a", "c"), "Running", <<Container("c1"), Container("c2")>>,
         <<Status("c1", <<"i1">>, 0), Status("c2", <<"i2">>, 1)>>),
     Pod(Meta("ab", "c"), "Running", <<Container("c3")>>, <<Status("c3", <<"i3">>, 0)>>),
     Pod(Meta("a", "bc"), "Pending", <<Container("c4")>>, <<Status("c4", <<"i4">>, 0)>>),
     Pod(Meta("b", "c"), "Pending", <<Container("c5")>>, <<Status("c5", <<>>, 0)>>)}

Phases == DOMAIN POD_PHASE \cup {"Evicted"}

\* the container-status lists of at most two statuses
StatusLists ==
    {<<Status("c1", <<"i1">>, r)>> : r \in 0..MaxRestart}
    \cup {<<Status("c1", <<"i1">>, r1), Status("c2", <<"i2">>, r2)>> :
              r1 \in 0..MaxRestart, r2 \in 0..MaxRestart}

\* spec.containers lists that lack expected keys
OddContainerLists ==
    {<<[name |-> "c1"]>>,
     <<[name |-> "c1", resources |-> EmptyDict]>>,
     <<[name |-> "c1", resources |-> [limits |-> [cpu |-> "3"]]]>>,
     <<[name |-> "c1", resources |-> [requests |-> [memory |-> "64"]]]>>,
     <<[name |-> "c1", resources |-> [limits |-> EmptyDict, requests |-> EmptyDict]]>>,
     <<Container("c9"), Container("c1")>>,
     <<Container("c1"), Container("c9")>>}

\* a pod whose containers have no status yet
UnstartedPod == Pod(Meta("a", "c"), "Running", <<Container("c1")>>, <<>>)

\* pods of one name that differ in phase, statuses and spec containers,
\* and pods that _process_pods skips
StatusPods ==
    {Pod(Meta("a", "c"), "Running", <<Container("c1")>>, sl) : sl \in StatusLists}
    \cup {Pod(Meta("a", "c"), ph, <<Container("c1")>>, <<Status("c1", <<"i1">>, 1)>>) :
              ph \in Phases}
    \cup {Pod(Meta("a", "c"), "Running", cl, <<Status("c1", <<"i1">>, 0)>>) :
              cl \in OddContainerLists}
    \cup {Pod(Meta("a", "c"), "Running", <<>>, <<Status("c1", <<"i1">>, 0)>>),
          UnstartedPod,
          [metadata |-> Meta("a", "c"), spec |-> EmptyDict,
           status |-> [phase |-> "Pending"]]}

\* the sequences over S of length 1..n
RECURSIVE SeqsUpTo(_, _)
SeqsUpTo(S, n) ==
    IF n = 0 THEN {}
    ELSE {<<x>> : x \in S} \cup {Append(q, x) : q \in SeqsUpTo(S, n - 1), x \in S}

\* no element occurs twice in the sequence
NoRepeat(q) == \A i, j \in 1..Len(q) : q[i] = q[j] => i = j

\* the pod lists that exercise correlation: up to MaxPods of the KeyPods, in any order
KeyPodLists == {<<>>} \cup {l \in SeqsUpTo(KeyPods, MaxPods) : NoRepeat(l)}

\* the pod lists that exercise pod processing: one pod of any shape, alone or
\* followed by more pods
AllPodLists ==
    SetOf(KeyPodLists
          \cup {<<p>> \o tail : p \in OwnerPods \cup StatusPods,
                               tail \in {<<>>} \cup SeqsUpTo({CHOOSE q \in KeyPods :
                                                             q.metadata.name = "ab"},
                                                            MaxPods - 1)})

\* the answers of the API server to GET .../replicasets/{name}
ReplicaSetResponses ==
    {RaisedResponse,
     JsonResponse([kind |-> "Status"]),
     JsonResponse([metadata |-> [name |-> "rs"]]),
     JsonResponse([metadata |-> [annotations |-> ("note" :> "x")]]),
     JsonResponse([metadata |-> [annotations |-> (RevisionAnnotation :> "3")]])}

(***************************************************************************)
(* The documents cAdvisor answers with: the spec and the stats document    *)
(* are two maps over the same container keys; an entry pairs the two       *)
(* values of one key.  The sequence is the iteration order of the stats    *)
(* document.                                                               *)
(***************************************************************************)
Entry(key, aliases, labels, snapshot) ==
    [key |-> key,
     spec |-> IF labels = <<>> THEN [aliases |-> aliases, image |-> "img:" \o aliases[1]]
              ELSE [aliases |-> aliases, image |-> "img:" \o aliases[1], labels |-> labels[1]],
     stats |-> <<snapshot>>]

\* one snapshot of the stats document; a section that is absent has its has_
\* flag off and an empty value
Snapshot(memory, usage, interfaces, filesystem) ==
    [has_memory |-> NonEmpty(memory), memory |-> memory,
     has_cpu |-> NonEmpty(usage), cpu |-> IF NonEmpty(usage) THEN [usage |-> usage] ELSE usage,
     has_network |-> NonEmpty(interfaces),
     network |-> IF NonEmpty(interfaces) THEN [interfaces |-> interfaces] ELSE EmptyDict,
     has_filesystem |-> NonEmpty(filesystem), filesystem |-> filesystem]

PodLabels(pod_name, namespace) ==
    (PodNameLabel :> pod_name) @@ (PodNamespaceLabel :> namespace)
    @@ (ContainerNameLabel :> "POD")

Eth(name, rx_bytes) == [name |-> name, rx_bytes |-> rx_bytes]

\* the snapshot of the entries that differ in how they are correlated
PlainSnapshot == Snapshot([rss |-> 100], EmptyDict, <<Eth("eth0", 10)>>, <<>>)

\* entries that differ in key, aliases and labels
CorrelationEntries ==
    {Entry("/docker/i1", <<"k8s_c1", "i1">>, <<>>, PlainSnapshot),
     Entry("/docker/i1", <<"i1", "k8s_c1">>, <<>>, PlainSnapshot),
     Entry("/docker/i2", <<"docker", "i2">>, <<>>, PlainSnapshot),
     Entry("/docker/i4", <<"k8s_c4", "i4">>, <<>>, PlainSnapshot),
     Entry("/kubelet", <<"sys">>, <<>>, PlainSnapshot),
     Entry("/docker/p1", <<"k8s_POD", "p1">>, <<PodLabels("a", "c")>>, PlainSnapshot),
     Entry("/docker/p2", <<"k8s_POD", "p2">>, <<PodLabels("zz", "c")>>, PlainSnapshot),
     Entry("/docker/p3", <<"k8s_POD", "p3">>, <<PodLabels("ab", "c")>>, PlainSnapshot),
     Entry("/docker/p4", <<"run", "p4">>, <<(PodNamespaceLabel :> "c")>>, PlainSnapshot)}

\* snapshots that differ in the sections and fields they report
Snapshots ==
    {Snapshot([rss |-> 100, usage |-> 7], [total |-> 1500000000, user |-> 700000000],
              <<Eth("eth0", 10)>>, <<>>),
     Snapshot([rss |-> 150], [total |-> 700000000],
              <<Eth("eth0", 10), [name |-> "eth1", rx_bytes |-> 10, tx_bytes |-> 4]>>, <<>>),
     [Snapshot(EmptyDict, EmptyDict, <<Eth("eth1", 5)>>,
               <<[device |-> "/dev/sda", capacity |-> 50, usage |-> 20,
                  writes_completed |-> 2, reads_completed |-> 3]>>)
      EXCEPT !.memory = [rss |-> 9]]}

\* entries of containers of the pods, which differ in what they report
AggregationEntries ==
    {Entry("/docker/" \o id, <<"k8s_" \o id, id>>, <<>>, snap) :
         id \in {"i1", "i2", "i3"}, snap \in Snapshots}

\* the documents of at most n entries of E, each key once
RECURSIVE Documents(_, _)
Documents(E, n) ==
    IF n = 0 THEN {<<>>}
    ELSE Documents(E, n - 1)
         \cup {Append(d, e) : d \in {x \in Documents(E, n - 1) : Len(x) = n - 1},
                              e \in E}

\* the order in which the documents list their keys
KeyOrder ==
    <<"/docker/i1", "/docker/i2", "/docker/i3", "/docker/i4", "/kubelet",
      "/docker/p2", "/docker/p1", "/docker/p3", "/docker/p4">>

\* a document lists each key once, in the order of KeyOrder
DistinctKeys(d) ==
    \A i, j \in 1..Len(d) : i < j => IndexOf(KeyOrder, d[i].key) < IndexOf(KeyOrder, d[j].key)

AllDocuments ==
    SetOf({d \in Documents(CorrelationEntries, MaxEntries)
                     \cup Documents(AggregationEntries, MaxEntries) : DistinctKeys(d)})

\* a few documents, for the runs that vary the pod list
FewDocuments ==
    {<<>>,
     <<Entry("/docker/i1", <<"k8s_c1", "i1">>, <<>>, CHOOSE sn \in Snapshots : sn.has_cpu
                                                          /\ "usage" \in DOMAIN sn.memory)>>,
     <<Entry("/docker/p1", <<"k8s_POD", "p1">>, <<PodLabels("a", "c")>>, PlainSnapshot),
       Entry("/docker/i3", <<"k8s_c3", "i3">>, <<>>, PlainSnapshot)>>}

\* the answers of the kubelet to GET /healthz: an exception or the body's lines
HealthResponses ==
    SetOf({RaisedResponse} \cup {[raised |-> FALSE, lines |-> l] :
                                     l \in {<<"ok">>, <<>>, <<"unhealthy">>, <<"starting", "ok">>,
                                            <<"OK">>, <<"ok ">>}})

\* the configured instance of the check
Instances ==
    {[host |-> "node1"],
     [host |-> "node1", dimensions |-> [env |-> "prod"]],
     [derive_host |-> TRUE],
     [derive_host |-> TRUE, kubernetes_labels |-> <<"app", "tier">>],
     EmptyDict}

(***************************************************************************)
(* The state of the check.                                                 *)
(***************************************************************************)
VARIABLES
    pc,                        \* where the check is: constructed, ready, a step of check(), done, raised
    instance,                  \* self.instances[0]
    report_container_metrics,  \* self.report_container_metrics
    kubernetes_connector,      \* whether self.kubernetes_connector is set
    host,                      \* self.host ("None" until prepare_run)
    dimensions,                \* check(): the instance-level dimensions
    container_dimension_map,   \* check(): container id -> dimensions
    pod_dimensions_map,        \* check(): pod_key -> dimensions
    pods,                      \* check(): pods['items']
    pod_i,                     \* _process_pods: the position of its loop
    containers,                \* _process_containers: the entries of the two documents
    entry_i,                   \* _process_containers: the position of its loop
    pod_metrics,               \* _process_containers: pod_key -> metric -> sum
    pod_network_metrics,       \* _process_containers: pod_key -> interface -> metric -> sum
    emitted,                   \* the samples handed to the sink in this cycle, in order
    requests,                  \* the HTTP requests made in this cycle, in order
    health_result,             \* _get_api_health: the answer of the kubelet in hand
    correlated,                \* what _get_container_dimensions returned for each entry so far
    runs                       \* how many times check() has been called, up to MaxRuns

vars == <<pc, instance, report_container_metrics, kubernetes_connector, host, dimensions,
          container_dimension_map, pod_dimensions_map, pods, pod_i, containers, entry_i,
          pod_metrics, pod_network_metrics, emitted, requests, health_result, correlated,
          runs>>

config == <<instance, report_container_metrics, kubernetes_connector, host>>

\* no answer in hand
NoResult == [raised |-> FALSE, lines |-> <<"(none)">>, none |-> TRUE]

\* one HTTP request of the cycle and whether it was answered (the answer to
\* the health probe is in health_result)
Request(endpoint, ok) == [endpoint |-> endpoint, ok |-> ok]

\* __init__: the state after construction, for the instances of I
InitOf(I) ==
    /\ pc = "constructed"
    /\ instance \in I
    /\ report_container_metrics \in {REPORT_CONTAINER_METRICS, TRUE}
    /\ kubernetes_connector = FALSE
    /\ host = "None"
    /\ dimensions = EmptyDict
    /\ container_dimension_map = EmptyDict
    /\ pod_dimensions_map = EmptyDict
    /\ pods = <<>>
    /\ pod_i = 1
    /\ containers = <<>>
    /\ entry_i = 1
    /\ pod_metrics = OEmpty
    /\ pod_network_metrics = OEmpty
    /\ emitted = <<>>
    /\ requests = <<>>
    /\ health_result = NoResult
    /\ correlated = <<>>
    /\ runs = 0

Init == InitOf(Instances)

\* prepare_run: raises when neither host nor derive_host is set
PrepareRun ==
    /\ pc = "constructed"
    /\ IF "host" \in DOMAIN instance
       THEN /\ host' = instance.host
            /\ pc' = "ready"
            /\ UNCHANGED kubernetes_connector
       ELSE IF "derive_host" \in DOMAIN instance /\ instance.derive_host
       THEN /\ kubernetes_connector' = TRUE
            /\ host' = "agent-pod-host"
            /\ pc' = "ready"
       ELSE /\ pc' = "config_error"
            /\ UNCHANGED <<host, kubernetes_connector>>
    /\ UNCHANGED <<instance, report_container_metrics, dimensions, container_dimension_map,
                   pod_dimensions_map, pods, pod_i, containers, entry_i, pod_metrics,
                   pod_network_metrics, emitted, requests, health_result, correlated, runs>>

\* AgentCheck._set_dimensions(None, instance): the agent's hostname and the
\* dimensions configured for the instance
SetDimensions(inst) ==
    DictUpdate([hostname |-> "agent-host"],
               IF "dimensions" \in DOMAIN inst THEN inst.dimensions ELSE EmptyDict)

\* instance.get('kubernetes_labels', ["app"])
KubernetesLabels(inst) ==
    IF "kubernetes_labels" \in DOMAIN inst THEN inst.kubernetes_labels ELSE <<"app">>

\* a variant of GetApiHealth: only the first line of the body is compared
GetApiHealthFirstLine(response) ==
    IF response.raised THEN FALSE
    ELSE Len(response.lines) > 0 /\ response.lines[1] = "ok"

\* _get_api_health(health_url), given the answer of the kubelet
GetApiHealth(response) ==
    IF response.raised THEN FALSE
    ELSE \E i \in 1..Len(response.lines) : response.lines[i] = "ok"

\* 0 if kubelet_health_status else 1
HealthGaugeValue(response) == IF GetApiHealth(response) THEN 0 ELSE 1

\* a variant of NewCycleMap: the map of the previous cycle is kept
NewCycleMapKept(previous) == previous

\* check(), lines 111-112: the two dimension maps are new empty dicts, local
\* to the call, whatever the previous call left
NewCycleMap(previous) == EmptyDict

\* check(), lines 109-116: a new cycle starts with fresh maps and probes the
\* health endpoint
StartCheck ==
    /\ pc \in {"ready", "done", "raised"}
    /\ \E response \in HealthResponses :
           /\ health_result' = response
           /\ requests' = <<[endpoint |-> "healthz"]>>
    /\ dimensions' = DictDel(SetDimensions(instance), "hostname")
    /\ container_dimension_map' = NewCycleMap(container_dimension_map)
    /\ pod_dimensions_map' = NewCycleMap(pod_dimensions_map)
    /\ pods' = <<>>
    /\ pod_i' = 1
    /\ containers' = <<>>
    /\ entry_i' = 1
    /\ pod_metrics' = OEmpty
    /\ pod_network_metrics' = OEmpty
    /\ emitted' = <<>>
    /\ correlated' = <<>>
    /\ pc' = "health"
    /\ runs' = Min({runs + 1, MaxRuns})
    /\ UNCHANGED config

\* check(), lines 116-117: _get_api_health returns and the health gauge is emitted
EmitHealth ==
    /\ pc = "health"
    /\ emitted' = Append(emitted, Sample("kubelet.health_status",
                                         HealthGaugeValue(health_result), dimensions,
                                         "gauge", "None"))
    /\ health_result' = NoResult
    /\ pc' = "fetch_pods"
    /\ UNCHANGED <<config, runs, dimensions, container_dimension_map, pod_dimensions_map, pods,
                   pod_i, containers, entry_i, pod_metrics, pod_network_metrics, requests,
                   correlated>>

\* a variant of AfterPodListError: the except clause falls through to
\* container processing
AfterPodListErrorContinues == "fetch_cadvisor"

\* check(), lines 120-122: where check() goes when the fetch of the pod list
\* raises; both _process_pods and _process_containers sit in the else clause
AfterPodListError == "done"

\* check(), lines 118-122: the pod list is fetched; when the fetch raises, the
\* exception is logged and check() returns
FetchPodsOf(PL) ==
    /\ pc = "fetch_pods"
    /\ \E response \in {RaisedResponse} \cup {JsonResponse([items |-> l]) : l \in PL} :
           IF response.raised
           THEN /\ requests' = Append(requests, Request("pods", FALSE))
                /\ pc' = AfterPodListError
                /\ UNCHANGED pods
           ELSE /\ requests' = Append(requests, Request("pods", TRUE))
                /\ pods' = response.json.items
                /\ pc' = IF response.json.items = <<>> THEN "fetch_cadvisor"
                         ELSE "process_pods"
    /\ UNCHANGED <<config, runs, dimensions, container_dimension_map, pod_dimensions_map, pod_i,
                   containers, entry_i, pod_metrics, pod_network_metrics, emitted,
                   health_result, correlated>>

\* where _process_pods goes after the pod at pod_i
AfterPod == IF pod_i = Len(pods) THEN "fetch_cadvisor" ELSE "process_pods"

\* _process_pods: a pod without spec containers or container statuses is skipped
SkipPod ==
    /\ pc = "process_pods"
    /\ PodSkipped(pods[pod_i])
    /\ pod_i' = pod_i + 1
    /\ pc' = AfterPod
    /\ UNCHANGED <<config, runs, dimensions, container_dimension_map, pod_dimensions_map, pods,
                   containers, entry_i, pod_metrics, pod_network_metrics, emitted, requests,
                   health_result, correlated>>

\* _process_pods: one iteration of its loop for a pod that is not skipped
ProcessOnePod ==
    /\ pc = "process_pods"
    /\ ~PodSkipped(pods[pod_i])
    /\ LET asks == AsksReplicaSet(pods[pod_i].metadata, kubernetes_connector)
       IN  \E response \in IF asks THEN ReplicaSetResponses ELSE {RaisedResponse} :
                  LET r == ProcessPod(pods[pod_i], KubernetesLabels(instance), dimensions,
                                      container_dimension_map, pod_dimensions_map,
                                      report_container_metrics, kubernetes_connector, response)
                  IN  /\ requests' = IF asks
                                      THEN Append(requests,
                                                  [endpoint |-> "replicasets",
                                                   ok |-> ~response.raised,
                                                   response |-> response])
                                      ELSE requests
                      /\ container_dimension_map' = r.cdm
                      /\ pod_dimensions_map' = r.pdm
                      /\ emitted' = emitted \o r.out
                      /\ pc' = IF r.raised THEN "raised" ELSE AfterPod
    /\ pod_i' = pod_i + 1
    /\ UNCHANGED <<config, runs, dimensions, pods, containers, entry_i, pod_metrics,
                   pod_network_metrics, health_result, correlated>>

\* a variant of AfterCadvisorError: the exception is not caught
AfterCadvisorErrorRaises == "raised"

\* _process_containers, lines 430-432: where the check goes when the fetch of a
\* cAdvisor document raises; the exception is caught and the method returns
AfterCadvisorError == "done"

\* _process_containers, lines 425-436: the two documents are fetched; when
\* either fetch raises, the error is logged and the method returns
FetchCadvisorOf(DL) ==
    /\ pc = "fetch_cadvisor"
    /\ \E outcome \in {<<"spec raises">>, <<"stats raises">>} \cup {<<"ok", d>> : d \in DL} :
           IF outcome[1] = "spec raises"
           THEN /\ requests' = Append(requests, Request("spec", FALSE))
                /\ pc' = AfterCadvisorError
                /\ UNCHANGED containers
           ELSE IF outcome[1] = "stats raises"
           THEN /\ requests' = requests \o <<Request("spec", TRUE), Request("stats", FALSE)>>
                /\ pc' = AfterCadvisorError
                /\ UNCHANGED containers
           ELSE /\ requests' = requests \o <<Request("spec", TRUE), Request("stats", TRUE)>>
                /\ containers' = outcome[2]
                /\ pc' = IF outcome[2] = <<>> THEN "flush" ELSE "containers"
    /\ pod_metrics' = OEmpty
    /\ pod_network_metrics' = OEmpty
    /\ entry_i' = 1
    /\ UNCHANGED <<config, runs, dimensions, container_dimension_map, pod_dimensions_map, pods,
                   pod_i, emitted, health_result, correlated>>

\* _process_containers, lines 437-453: one iteration of its loop
ProcessContainer ==
    /\ pc = "containers"
    /\ LET entry == containers[entry_i]
           g == GetContainerDimensions(entry.key, dimensions, entry.spec,
                                       container_dimension_map, pod_dimensions_map)
           st == ExtractContainer(entry.stats[1], g.pod_key, report_container_metrics,
                                  [out |-> <<>>, dims |-> g.dims, pm |-> pod_metrics,
                                   pnm |-> pod_network_metrics])
       IN  IF g.raised
           THEN /\ pc' = "raised"
                /\ UNCHANGED <<container_dimension_map, pod_metrics, pod_network_metrics,
                               emitted, correlated>>
           ELSE /\ pc' = IF entry_i = Len(containers) THEN "flush" ELSE "containers"
                /\ container_dimension_map' =
                       IF g.shared = <<>> THEN container_dimension_map
                       ELSE DictSet(container_dimension_map, g.shared[1], st.dims)
                /\ pod_metrics' = st.pm
                /\ pod_network_metrics' = st.pnm
                /\ emitted' = emitted \o st.out
                /\ correlated' = Append(correlated, [key |-> entry.key, pod_key |-> g.pod_key,
                                                     dims |-> g.dims])
    /\ entry_i' = entry_i + 1
    /\ UNCHANGED <<config, runs, dimensions, pod_dimensions_map, pods, pod_i, containers, requests,
                   health_result>>

\* _process_containers, line 454: send_pod_metrics
FlushPodMetrics ==
    /\ pc = "flush"
    /\ LET r == SendPodMetrics(1, pod_metrics, pod_dimensions_map)
       IN  /\ emitted' = emitted \o r.out
           /\ pod_dimensions_map' = r.pdm
           /\ pc' = IF r.raised THEN "raised" ELSE "flush_network"
    /\ UNCHANGED <<config, runs, dimensions, container_dimension_map, pods, pod_i, containers,
                   entry_i, pod_metrics, pod_network_metrics, requests, health_result,
                   correlated>>

\* _process_containers, line 455: send_network_pod_metrics; check() returns
FlushNetworkPodMetrics ==
    /\ pc = "flush_network"
    /\ LET r == SendNetworkPodMetrics(1, pod_network_metrics, pod_dimensions_map)
       IN  /\ emitted' = emitted \o r.out
           /\ pc' = IF r.raised THEN "raised" ELSE "done"
    /\ UNCHANGED <<config, runs, dimensions, container_dimension_map, pod_dimensions_map, pods,
                   pod_i, containers, entry_i, pod_metrics, pod_network_metrics, requests,
                   health_result, correlated>>

FetchPods == FetchPodsOf(AllPodLists)

FetchCadvisor == FetchCadvisorOf(FewDocuments)

\* the check under every shape of pod list
Next ==
    \/ PrepareRun
    \/ StartCheck
    \/ EmitHealth
    \/ FetchPods
    \/ SkipPod
    \/ ProcessOnePod
    \/ FetchCadvisor
    \/ ProcessContainer
    \/ FlushPodMetrics
    \/ FlushNetworkPodMetrics

Spec == Init /\ [][Next]_vars

\* the pod lists of the runs that vary the cAdvisor documents
KeyAndUnstartedPodLists == SetOf(KeyPodLists \cup {<<UnstartedPod>>})

FetchKeyPods == FetchPodsOf(KeyAndUnstartedPodLists)

FetchAllCadvisor == FetchCadvisorOf(AllDocuments)

InitContainers == InitOf({i \in Instances : "host" \in DOMAIN i /\ "dimensions" \in DOMAIN i})

\* the check under every shape of cAdvisor document
NextContainers ==
    \/ PrepareRun
    \/ StartCheck
    \/ EmitHealth
    \/ FetchKeyPods
    \/ SkipPod
    \/ ProcessOnePod
    \/ FetchAllCadvisor
    \/ ProcessContainer
    \/ FlushPodMetrics
    \/ FlushNetworkPodMetrics

SpecContainers == InitContainers /\ [][NextContainers]_vars

(***************************************************************************)
(* Properties.                                                             *)
(***************************************************************************)
\* a request to the endpoint was made in this cycle
Requested(endpoint) == \E i \in 1..Len(requests) : requests[i].endpoint = endpoint

\* a request to the endpoint was made in this cycle and raised
RequestFailed(endpoint) ==
    \E i \in 1..Len(requests) : requests[i].endpoint = endpoint /\ ~requests[i].ok

\* the positions of the samples of a name among the emitted ones
SamplesNamed(name) == {i \in 1..Len(emitted) : emitted[i].name = name}

\* the names under which a cAdvisor metric is emitted with a prefix
CadvisorSampleNames(prefix) ==
    {prefix \o m : m \in DOMAIN METRIC_TYPES_UNITS}
    \cup {prefix \o m \o "_sec" : m \in DOMAIN METRIC_TYPES_UNITS}

\* the pods of the pod list that _process_pods does not skip
ProcessedPods == {i \in 1..Len(pods) : ~PodSkipped(pods[i])}

\* the cycle is past the emission of the health gauge
PastHealth ==
    pc \in {"fetch_pods", "process_pods", "fetch_cadvisor", "containers", "flush",
            "flush_network", "done", "raised"}

C2_CadvisorErrorKeepsPodGauges ==
    (RequestFailed("spec") \/ RequestFailed("stats")) =>
        /\ pc = "done"
        /\ correlated = <<>>
        /\ \A i \in 1..Len(emitted) :
               emitted[i].name \notin CadvisorSampleNames("container.")
                                      \cup CadvisorSampleNames("pod.")
        /\ SamplesNamed("kubelet.health_status") = {1}
        /\ Cardinality(SamplesNamed("pod.restart_count")) = Cardinality(ProcessedPods)
        /\ Cardinality(SamplesNamed("pod.phase")) = Cardinality(ProcessedPods)
        /\ \A p \in ProcessedPods :
               \A n \in {"pod.restart_count", "pod.phase"} :
                   \E i \in SamplesNamed(n) :
                       /\ emitted[i].dimensions.pod_name = pods[p].metadata.name
                       /\ emitted[i].dimensions.namespace = pods[p].metadata.namespace

C2_Witness ==
    /\ RequestFailed("stats")
    /\ pc = "done"
    /\ report_container_metrics
    /\ Cardinality(ProcessedPods) = 2

\* C3, in every state: from the emission of the health gauge on, the samples of
\* the cycle hold exactly one kubelet.health_status gauge, it is the first
\* sample, and its value is 0 or 1; before it, nothing has been emitted and the
\* health probe is the only request made.
C3_OneHealthGauge ==
    /\ PastHealth => /\ SamplesNamed("kubelet.health_status") = {1}
                     /\ emitted[1].value \in {0, 1}
                     /\ emitted[1].type = "gauge"
    /\ pc = "health" => /\ emitted = <<>>
                        /\ requests = <<[endpoint |-> "healthz"]>>

\* C3, in every step that returns from the health probe: the gauge is 0 if and
\* only if the probe did not raise and a line of the body equals "ok", and the
\* cycle goes on to the pod-list fetch whatever the answer was.
C3_HealthStep ==
    pc = "health" =>
        /\ pc' = "fetch_pods"
        /\ Len(emitted') = 1
        /\ emitted'[1].name = "kubelet.health_status"
        /\ (emitted'[1].value = 0) <=>
               (~health_result.raised
                /\ "ok" \in {health_result.lines[j] : j \in 1..Len(health_result.lines)})
        /\ (emitted'[1].value = 1) <=> (emitted'[1].value # 0)

\* C3: every cycle emits exactly one kubelet.health_status gauge, before any
\* pod or container work; it is 0 if and only if a line of the health body is
\* "ok" and 1 otherwise, and a failing probe does not end the cycle.
C3_HealthGauge == []C3_OneHealthGauge /\ [][C3_HealthStep]_vars

C3_Witness ==
    /\ pc = "fetch_pods"
    /\ emitted[1].value = 0

\* the positions of the aliases of an entry that occur in its key
OccurringAliases(e) == {j \in 1..Len(e.spec.aliases) : StrIn(e.spec.aliases[j], e.key)}

\* the spec of an entry carries an io.kubernetes.pod.* label
HasPodLabel(e) ==
    IF "labels" \notin DOMAIN e.spec THEN FALSE
    ELSE PodNameLabel \in DOMAIN e.spec.labels \/ PodNamespaceLabel \in DOMAIN e.spec.labels

\* the spec of an entry carries both io.kubernetes.pod.* labels
HasBothPodLabels(e) ==
    IF "labels" \notin DOMAIN e.spec THEN FALSE
    ELSE PodNameLabel \in DOMAIN e.spec.labels /\ PodNamespaceLabel \in DOMAIN e.spec.labels

\* a dimension set without its unit key
WithoutUnit(d) == [k \in (DOMAIN d) \ {"unit"} |-> d[k]]

\* C4 as stated: an entry whose key matches no alias of its spec and whose
\* spec carries no io.kubernetes.pod.* label is given pod_key = none, whatever
\* container ids (missing ones included) the pod list recorded.
C4_UnmatchedIsUnaffiliated ==
    \A i \in 1..Len(correlated) :
        (OccurringAliases(containers[i]) = {} /\ ~HasPodLabel(containers[i]))
            => correlated[i].pod_key = <<>>

\* C5 as stated: if any alias of the spec is a key of the container dimension
\* map, the correlator returns the dimensions stored under it and the pod_key
\* of its pod_name and namespace, wherever the alias stands in the list.
C5_AnyAliasInMap ==
    \A i \in 1..Len(correlated) :
        \A j \in 1..Len(containers[i].spec.aliases) :
            LET a == containers[i].spec.aliases[j]
            IN  a \in DOMAIN container_dimension_map =>
                    /\ correlated[i].pod_key
                           = <<container_dimension_map[a].pod_name
                               \o container_dimension_map[a].namespace>>
                    /\ WithoutUnit(correlated[i].dims)
                           = WithoutUnit(container_dimension_map[a])

\* the container id the correlator looks up for an entry: the first alias that
\* occurs in its key, the empty string when none does
LookedUp(e) ==
    IF OccurringAliases(e) = {} THEN ""
    ELSE e.spec.aliases[CHOOSE j \in OccurringAliases(e) :
                            \A k \in OccurringAliases(e) : j <= k]

\* C6: until the flush, every entry processed so far that was not matched by
\* alias and whose spec carries both pod labels has, when the pod_key of the
\* labels is in the pod dimension map, that pod_key and every dimension of
\* the pod, with container_name taken from the container-name label; and when
\* it is not, pod_key = none and the dimensions of a standalone container.
\* Correlation never raises.
C6_LabelledContainer ==
    /\ pc # "raised"
    /\ pc \in {"containers", "flush"} =>
        \A i \in 1..Len(correlated) :
            LET e == containers[i]
                r == correlated[i]
                k == e.spec.labels[PodNameLabel] \o e.spec.labels[PodNamespaceLabel]
            IN  (LookedUp(e) \notin DOMAIN container_dimension_map /\ HasBothPodLabels(e)) =>
                    IF k \in DOMAIN pod_dimensions_map
                    THEN /\ r.pod_key = <<k>>
                         /\ \A d \in (DOMAIN pod_dimensions_map[k]) \ {"container_name"} :
                                /\ d \in DOMAIN r.dims
                                /\ r.dims[d] = pod_dimensions_map[k][d]
                         /\ r.dims.container_name = e.spec.labels[ContainerNameLabel]
                    ELSE /\ r.pod_key = <<>>
                         /\ r.dims = DictUpdate(dimensions,
                                                [image |-> e.spec.image,
                                                 container_name |-> e.spec.aliases[1]])

C6_Witness ==
    /\ pc = "flush"
    /\ Len(correlated) = 2
    /\ HasBothPodLabels(containers[1])
    /\ HasBothPodLabels(containers[2])
    /\ correlated[1].pod_key = <<>>
    /\ correlated[2].pod_key = <<"ac">>
    /\ correlated[2].dims.container_name = "POD"

\* the cpu and memory rows of the catalogue: <<section, cAdvisor field, metric name>>
ScalarRows ==
    SetOf({<<"memory", CADVISOR_METRICS.memory_metrics[i][1],
             CADVISOR_METRICS.memory_metrics[i][2]>> :
               i \in 1..Len(CADVISOR_METRICS.memory_metrics)}
          \cup {<<"cpu", CADVISOR_METRICS.cpu_metrics[i][1],
                   CADVISOR_METRICS.cpu_metrics[i][2]>> :
                     i \in 1..Len(CADVISOR_METRICS.cpu_metrics)})

\* the first snapshot of the i-th entry of the stats document
FirstStats(i) == containers[i].stats[1]

\* the converted value the i-th entry reports for a cpu or memory row, if any
ScalarValue(i, row) ==
    LET snap == FirstStats(i)
    IN  IF row[1] = "memory"
        THEN IF snap.has_memory /\ NonEmpty(snap.memory) /\ row[2] \in DOMAIN snap.memory
             THEN <<snap.memory[row[2]]>> ELSE <<>>
        ELSE IF snap.has_cpu /\ NonEmpty(snap.cpu) /\ row[2] \in DOMAIN snap.cpu.usage
             THEN <<snap.cpu.usage[row[2]] \div 1000000000>> ELSE <<>>

\* the entries among the first n processed that are correlated to pod_key k
\* and report the row
ScalarContributors(k, row, n) ==
    {i \in 1..n : correlated[i].pod_key = <<k>> /\ ScalarValue(i, row) # <<>>}

RECURSIVE ScalarTotal(_, _, _)
\* the plain sum of the values of the contributors among the first n entries
ScalarTotal(k, row, n) ==
    IF n = 0 THEN 0
    ELSE ScalarTotal(k, row, n - 1)
         + (IF n \in ScalarContributors(k, row, n) THEN ScalarValue(n, row)[1] ELSE 0)

\* the pod keys the correlator returned in this cycle
CorrelatedPodKeys ==
    {correlated[i].pod_key[1] : i \in {j \in 1..Len(correlated) : correlated[j].pod_key # <<>>}}

\* the pod-level samples of a name emitted for pod_key k, without an interface
PodSamples(k, name) ==
    {i \in SamplesNamed(name) :
        /\ "pod_name" \in DOMAIN emitted[i].dimensions
        /\ "namespace" \in DOMAIN emitted[i].dimensions
        /\ "interface" \notin DOMAIN emitted[i].dimensions
        /\ emitted[i].dimensions.pod_name \o emitted[i].dimensions.namespace = k}

\* both cAdvisor documents were fetched in this cycle
CadvisorFetched ==
    Requested("spec") /\ Requested("stats") /\ ~RequestFailed("spec") /\ ~RequestFailed("stats")

\* the cpu/memory accumulator has been flushed in this cycle
ScalarsFlushed == pc = "flush_network" \/ (pc = "done" /\ CadvisorFetched)

\* C7: the cpu/memory accumulator holds, for every pod_key and metric name,
\* the plain sum of the converted values of exactly the entries correlated to
\* that pod_key that reported the field, and holds a key only if an entry
\* contributed to it; no pod-level cAdvisor sample is emitted before the last
\* entry has been accumulated; after the flush the one gauge emitted for a
\* pod_key and metric name (and its one rate, for cpu) carries that sum.
C7_PodScalarSums ==
    LET n == Len(correlated)
    IN  /\ \A k \in DOMAIN pod_metrics.val :
               /\ DOMAIN pod_metrics.val[k].val # {}
               /\ \A m \in DOMAIN pod_metrics.val[k].val :
                      \E row \in ScalarRows : row[3] = m /\ ScalarContributors(k, row, n) # {}
        /\ \A k \in CorrelatedPodKeys : \A row \in ScalarRows :
               ScalarContributors(k, row, n) # {} =>
                   /\ OHas(pod_metrics, k)
                   /\ OHas(pod_metrics.val[k], row[3])
                   /\ pod_metrics.val[k].val[row[3]] = ScalarTotal(k, row, n)
        /\ pc \notin {"flush_network", "done"} =>
               \A name \in CadvisorSampleNames("pod.") : SamplesNamed(name) = {}
        /\ ScalarsFlushed =>
               /\ n = Len(containers)
               /\ \A k \in CorrelatedPodKeys : \A row \in ScalarRows :
                      LET gauges == PodSamples(k, "pod." \o row[3])
                          rates == PodSamples(k, "pod." \o row[3] \o "_sec")
                      IN  IF ScalarContributors(k, row, n) = {}
                          THEN gauges = {} /\ rates = {}
                          ELSE /\ Cardinality(gauges) = 1
                               /\ \A i \in gauges :
                                      /\ emitted[i].type = "gauge"
                                      /\ emitted[i].value = ScalarTotal(k, row, n)
                               /\ Cardinality(rates) = IF row[1] = "cpu" THEN 1 ELSE 0
                               /\ \A i \in rates :
                                      /\ emitted[i].type = "rate"
                                      /\ emitted[i].value = ScalarTotal(k, row, n)

C7_Witness ==
    /\ pc = "flush_network"
    /\ Cardinality(ScalarContributors("ac", <<"memory", "rss", "mem.rss_bytes">>,
                                      Len(correlated))) = 2
    /\ Cardinality(ScalarContributors("ac", <<"cpu", "total", "cpu.total_time">>,
                                      Len(correlated))) = 2
    /\ \E i \in PodSamples("ac", "pod.mem.rss_bytes") : emitted[i].value = 250
    /\ \E i \in PodSamples("ac", "pod.cpu.total_time") : emitted[i].value = 1

\* the network rows of the catalogue: <<cAdvisor field, metric name>>
NetworkRows ==
    {CADVISOR_METRICS.network_metrics[i] : i \in 1..Len(CADVISOR_METRICS.network_metrics)}

\* the interfaces the i-th entry reports on, in the order of its snapshot
InterfacesOf(i) ==
    LET snap == FirstStats(i)
    IN  IF snap.has_network /\ NonEmpty(snap.network) THEN snap.network.interfaces ELSE <<>>

\* the names of the interfaces the i-th entry reports on
InterfaceNames(i) == {InterfacesOf(i)[j].name : j \in 1..Len(InterfacesOf(i))}

RECURSIVE InterfaceTotal(_, _, _, _)
\* the sum of a field over the first j interfaces of a list that bear a name
InterfaceTotal(interfaces, name, field, j) ==
    IF j = 0 THEN 0
    ELSE InterfaceTotal(interfaces, name, field, j - 1)
         + (IF interfaces[j].name = name /\ field \in DOMAIN interfaces[j]
            THEN interfaces[j][field] ELSE 0)

\* the entries among the first n processed that are correlated to pod_key k
\* and report the field on the interface
NetworkContributors(k, name, field, n) ==
    {i \in 1..n :
        /\ correlated[i].pod_key = <<k>>
        /\ \E j \in 1..Len(InterfacesOf(i)) :
               InterfacesOf(i)[j].name = name /\ field \in DOMAIN InterfacesOf(i)[j]}

RECURSIVE NetworkTotal(_, _, _, _)
\* the sum of a field on an interface over the contributors among the first n
NetworkTotal(k, name, field, n) ==
    IF n = 0 THEN 0
    ELSE NetworkTotal(k, name, field, n - 1)
         + (IF n \in NetworkContributors(k, name, field, n)
            THEN InterfaceTotal(InterfacesOf(n), name, field, Len(InterfacesOf(n)))
            ELSE 0)

\* the interface names the entries processed so far report on
SeenInterfaces == UNION {InterfaceNames(i) : i \in 1..Len(correlated)}

\* the pod-level samples of a name emitted for pod_key k on an interface
PodInterfaceSamples(k, interface, name) ==
    {i \in SamplesNamed(name) :
        /\ "pod_name" \in DOMAIN emitted[i].dimensions
        /\ "namespace" \in DOMAIN emitted[i].dimensions
        /\ "interface" \in DOMAIN emitted[i].dimensions
        /\ emitted[i].dimensions.interface = interface
        /\ emitted[i].dimensions.pod_name \o emitted[i].dimensions.namespace = k}

\* the network accumulator holds, per pod_key, interface and metric, the sum
\* over the contributing entries, and the flushed samples carry it
C8_NetworkSums ==
    LET n == Len(correlated)
    IN  \A k \in CorrelatedPodKeys : \A f \in SeenInterfaces : \A row \in NetworkRows :
            LET c == NetworkContributors(k, f, row[1], n)
                gauges == PodInterfaceSamples(k, f, "pod." \o row[2])
                rates == PodInterfaceSamples(k, f, "pod." \o row[2] \o "_sec")
            IN  /\ c # {} =>
                       /\ OHas(pod_network_metrics, k)
                       /\ OHas(pod_network_metrics.val[k], f)
                       /\ OHas(pod_network_metrics.val[k].val[f], row[2])
                       /\ pod_network_metrics.val[k].val[f].val[row[2]]
                              = NetworkTotal(k, f, row[1], n)
                /\ c = {} =>
                       ~(/\ OHas(pod_network_metrics, k)
                         /\ OHas(pod_network_metrics.val[k], f)
                         /\ OHas(pod_network_metrics.val[k].val[f], row[2]))
                /\ (pc = "done" /\ CadvisorFetched) =>
                       IF c = {} THEN gauges = {} /\ rates = {}
                       ELSE /\ Cardinality(gauges) = 1
                            /\ Cardinality(rates) = 1
                            /\ \A i \in gauges \cup rates :
                                   emitted[i].value = NetworkTotal(k, f, row[1], n)

\* the entry just processed leaves the totals of every other pod_key and of
\* every interface it does not report on as they were
C8_OthersUnchanged ==
    Len(correlated') = Len(correlated) + 1 =>
        LET n == Len(correlated')
        IN  \A k \in DOMAIN pod_network_metrics.val :
                \A f \in DOMAIN pod_network_metrics.val[k].val :
                    (correlated'[n].pod_key # <<k>> \/ f \notin InterfaceNames(n)) =>
                        /\ OHas(pod_network_metrics', k)
                        /\ OHas(pod_network_metrics'.val[k], f)
                        /\ pod_network_metrics'.val[k].val[f] = pod_network_metrics.val[k].val[f]

\* C8: pod-level network totals are kept per interface: for every pod_key,
\* interface and network metric the flushed pod-level sample tagged with the
\* interface equals the sum of the metric over the entries of the pod that
\* report on that interface, and an entry that reports on another interface
\* or belongs to another pod leaves the total unchanged.
C8_PerInterfaceTotals == []C8_NetworkSums /\ [][C8_OthersUnchanged]_vars

C8_Witness ==
    /\ pc = "done"
    /\ CadvisorFetched
    /\ Cardinality(NetworkContributors("ac", "eth0", "rx_bytes", Len(correlated))) = 2
    /\ \E i \in PodInterfaceSamples("ac", "eth0", "pod.net.in_bytes") : emitted[i].value = 20
    /\ \E i \in PodInterfaceSamples("ac", "eth1", "pod.net.in_bytes") : emitted[i].value = 10

\* the first pod of the list has been processed and a ReplicaSet owns it
FirstPodOfReplicaSet ==
    /\ pods # <<>>
    /\ pod_i >= 2
    /\ ~PodSkipped(pods[1])
    /\ PodOwner(pods[1].metadata) # <<>>
    /\ PodOwner(pods[1].metadata)[1] = "ReplicaSet"

\* the dimensions stored for the first pod of the list
FirstPodDimensions ==
    pod_dimensions_map[pods[1].metadata.name \o pods[1].metadata.namespace]

\* the secondary lookup of this cycle succeeded and the annotations of the
\* ReplicaSet contain the deployment revision marker
LookupFoundMarker ==
    /\ kubernetes_connector
    /\ \E i \in 1..Len(requests) :
           /\ requests[i].endpoint = "replicasets"
           /\ ~requests[i].response.raised
           /\ "metadata" \in DOMAIN requests[i].response.json
           /\ "annotations" \in DOMAIN requests[i].response.json.metadata
           /\ RevisionAnnotation \in DOMAIN requests[i].response.json.metadata.annotations

\* the names of the ReplicaSets with their last hyphen-separated segment removed
WithoutLastSegment == ("web-7d9f8c6b8" :> "web") @@ ("web" :> "")

\* C9 as stated: for a pod owned by a ReplicaSet, a successful lookup that
\* finds the revision marker gives deployment = the ReplicaSet name without
\* its last hyphen-separated segment and no replica_set key, whatever the
\* name; every other case gives replica_set = the raw name; nothing raises.
C9_MarkerGivesDeployment ==
    FirstPodOfReplicaSet =>
        LET name == PodOwner(pods[1].metadata)[2]
            d == FirstPodDimensions
        IN  /\ pc # "raised"
            /\ IF LookupFoundMarker
               THEN /\ "deployment" \in DOMAIN d
                    /\ d.deployment = WithoutLastSegment[name]
                    /\ "replica_set" \notin DOMAIN d
               ELSE /\ "replica_set" \in DOMAIN d
                    /\ d.replica_set = name
                    /\ "deployment" \notin DOMAIN d

\* C9 amended: for a pod owned by a ReplicaSet, a successful lookup that finds
\* the revision marker gives deployment = the ReplicaSet name without its last
\* hyphen-separated segment and no replica_set key, provided that stripped
\* name is not empty; in every other case (stripped name empty, marker absent,
\* no connector, lookup raises, fields missing) the pod gets replica_set = the
\* raw name and no deployment key; nothing raises and later pods are processed.
C9_NonEmptyStrippedNameGivesDeployment ==
    FirstPodOfReplicaSet =>
        LET name == PodOwner(pods[1].metadata)[2]
            d == FirstPodDimensions
        IN  /\ pc # "raised"
            /\ IF LookupFoundMarker /\ WithoutLastSegment[name] # ""
               THEN /\ "deployment" \in DOMAIN d
                    /\ d.deployment = WithoutLastSegment[name]
                    /\ "replica_set" \notin DOMAIN d
               ELSE /\ "replica_set" \in DOMAIN d
                    /\ d.replica_set = name
                    /\ "deployment" \notin DOMAIN d

C9_Witness ==
    /\ FirstPodOfReplicaSet
    /\ LookupFoundMarker
    /\ PodOwner(pods[1].metadata)[2] = "web-7d9f8c6b8"
    /\ FirstPodDimensions.deployment = "web"
    /\ Len(pods) = 2
    /\ pod_i = 3
    /\ "abc" \in DOMAIN pod_dimensions_map

\* the owner keys of a dimension map
OwnerKeys(d) ==
    (DOMAIN d) \cap {"replication_controller", "replica_set", "deployment", "daemon_set"}

\* the pods processed so far whose dimension map no later pod has replaced
StoredPods ==
    {j \in 1..Min({pod_i - 1, Len(pods)}) :
        /\ ~PodSkipped(pods[j])
        /\ \A l \in (j + 1)..Min({pod_i - 1, Len(pods)}) :
               PodSkipped(pods[l])
               \/ pods[l].metadata.name \o pods[l].metadata.namespace
                      # pods[j].metadata.name \o pods[j].metadata.namespace}

\* C10: every pod dimension map built in the cycle holds at most one owner
\* key, the one the owner table assigns to the resolved kind:
\* ReplicationController gives replication_controller = name, DaemonSet gives
\* daemon_set = name, ReplicaSet gives replica_set or deployment, and any
\* other kind, or no owner, gives no owner key.
C10_OneOwnerKey ==
    \A j \in StoredPods :
        LET d == pod_dimensions_map[pods[j].metadata.name \o pods[j].metadata.namespace]
            owner == PodOwner(pods[j].metadata)
        IN  /\ Cardinality(OwnerKeys(d)) <= 1
            /\ IF owner = <<>> THEN OwnerKeys(d) = {}
               ELSE IF owner[1] = "ReplicationController"
               THEN OwnerKeys(d) = {"replication_controller"}
                    /\ d.replication_controller = owner[2]
               ELSE IF owner[1] = "DaemonSet"
               THEN OwnerKeys(d) = {"daemon_set"} /\ d.daemon_set = owner[2]
               ELSE IF owner[1] = "ReplicaSet"
               THEN OwnerKeys(d) \in {{"replica_set"}, {"deployment"}}
               ELSE OwnerKeys(d) = {}

C10_Witness ==
    /\ 1 \in StoredPods
    /\ PodOwner(pods[1].metadata) = <<"DaemonSet", "fluentd">>
    /\ OwnerKeys(pod_dimensions_map["ac"]) = {"daemon_set"}
    /\ pod_dimensions_map["ac"].daemon_set = "fluentd"

\* the first pod of the list has been processed
FirstPodProcessed == pods # <<>> /\ pod_i >= 2 /\ ~PodSkipped(pods[1])

\* the owner reference list of the first pod, empty when absent
FirstPodReferences ==
    IF "ownerReferences" \in DOMAIN pods[1].metadata
    THEN pods[1].metadata.ownerReferences ELSE <<>>

\* the reference the created-by annotation of the first pod encodes, if it parses
FirstPodCreatedBy ==
    LET md == pods[1].metadata
    IN  IF "annotations" \notin DOMAIN md THEN <<>>
        ELSE IF CreatedByAnnotation \notin DOMAIN md.annotations THEN <<>>
        ELSE IF ~md.annotations[CreatedByAnnotation].isJson THEN <<>>
        ELSE IF "reference" \notin DOMAIN md.annotations[CreatedByAnnotation].value THEN <<>>
        ELSE <<md.annotations[CreatedByAnnotation].value.reference>>

\* the owner keys the owner table allows for a reference
KeysOfReference(ref) ==
    IF ~("kind" \in DOMAIN ref /\ "name" \in DOMAIN ref) THEN {{}}
    ELSE IF ref.kind = "ReplicationController" THEN {{"replication_controller"}}
    ELSE IF ref.kind = "DaemonSet" THEN {{"daemon_set"}}
    ELSE IF ref.kind = "ReplicaSet" THEN {{"replica_set"}, {"deployment"}}
    ELSE {{}}

\* the gauges of a name emitted for the first pod
FirstPodGauges(name) ==
    {i \in SamplesNamed(name) :
        /\ emitted[i].type = "gauge"
        /\ "pod_name" \in DOMAIN emitted[i].dimensions
        /\ emitted[i].dimensions.pod_name = pods[1].metadata.name
        /\ emitted[i].dimensions.namespace = pods[1].metadata.namespace}

\* C11 as stated: owner resolution follows a fixed priority: a non-empty ownerReferences
\* list decides by its first entry alone and the created-by annotation is not
\* consulted; the annotation decides only when ownerReferences is absent or
\* empty; when neither yields a kind and name the pod has no owner key; in
\* every case the pod's record is stored and its gauges are emitted.
C11_OwnerPriority ==
    FirstPodProcessed =>
        LET d == FirstPodDimensions
        IN  /\ pc # "raised"
            /\ FirstPodGauges("pod.restart_count") # {}
            /\ FirstPodGauges("pod.phase") # {}
            /\ IF FirstPodReferences # <<>>
               THEN OwnerKeys(d) \in KeysOfReference(FirstPodReferences[1])
               ELSE IF FirstPodCreatedBy # <<>>
               THEN OwnerKeys(d) \in KeysOfReference(FirstPodCreatedBy[1])
               ELSE OwnerKeys(d) = {}
            /\ \A k \in OwnerKeys(d) :
                   \/ k = "deployment"
                   \/ d[k] = (IF FirstPodReferences # <<>> THEN FirstPodReferences[1].name
                              ELSE FirstPodCreatedBy[1].name)

\* the steps of a cycle that come after the pod list has been processed
AfterPodProcessing == pc \in {"fetch_cadvisor", "containers", "flush", "flush_network"}

\* every set stored in the map m is stored unchanged in the next state
StoredUnchanged(m, n) == \A k \in DOMAIN m : k \in DOMAIN n /\ n[k] = m[k]

\* C12: once a pod's dimension set is stored in the pod-dimension map, or a
\* container's in the container-dimension map, no step of container processing
\* or of the flush changes the stored set, and no step of pod or container
\* processing changes the instance-level dimension set
C12_StoredDimensionsKept ==
    [][/\ (pc \in {"process_pods", "fetch_cadvisor", "containers", "flush", "flush_network"}
              => dimensions' = dimensions)
       /\ (AfterPodProcessing
              => /\ StoredUnchanged(pod_dimensions_map, pod_dimensions_map')
                 /\ StoredUnchanged(container_dimension_map, container_dimension_map'))]_vars

\* name begins with prefix
StartsWith(name, prefix) ==
    Len(name) >= Len(prefix) /\ SubSeq(name, 1, Len(prefix)) = prefix

\* the answers to the ReplicaSet lookups of this cycle, in order
ReplicaSetAnswers ==
    SelectSeq(requests, LAMBDA r : r.endpoint = "replicasets")

RECURSIVE PodsWithFlag(_, _, _)
\* _process_pods over the pod list of this cycle from pod i on, run with the
\* given value of report_container_metrics; a ReplicaSet lookup gets the answer
\* it got in this cycle (an exception when the cycle did not get that far)
PodsWithFlag(i, report, st) ==
    IF i > Len(pods) \/ st.raised THEN st
    ELSE IF PodSkipped(pods[i]) THEN PodsWithFlag(i + 1, report, st)
    ELSE LET asks == AsksReplicaSet(pods[i].metadata, kubernetes_connector)
             response == IF asks /\ st.asked < Len(ReplicaSetAnswers)
                         THEN ReplicaSetAnswers[st.asked + 1].response
                         ELSE RaisedResponse
             r == ProcessPod(pods[i], KubernetesLabels(instance), dimensions, st.cdm, st.pdm,
                             report, kubernetes_connector, response)
         IN  PodsWithFlag(i + 1, report,
                          [cdm |-> r.cdm, pdm |-> r.pdm, out |-> st.out \o r.out,
                           raised |-> r.raised,
                           asked |-> IF asks THEN st.asked + 1 ELSE st.asked])

RECURSIVE ContainersWithFlag(_, _, _)
\* the loop of _process_containers over the stats document of this cycle from
\* entry i on, run with the given value of report_container_metrics
ContainersWithFlag(i, report, st) ==
    IF i > Len(containers) \/ st.raised THEN st
    ELSE LET entry == containers[i]
             g == GetContainerDimensions(entry.key, dimensions, entry.spec, st.cdm, st.pdm)
             x == ExtractContainer(entry.stats[1], g.pod_key, report,
                                   [out |-> <<>>, dims |-> g.dims, pm |-> st.pm,
                                    pnm |-> st.pnm])
         IN  IF g.raised THEN [st EXCEPT !.raised = TRUE]
             ELSE ContainersWithFlag(i + 1, report,
                      [cdm |-> IF g.shared = <<>> THEN st.cdm
                               ELSE DictSet(st.cdm, g.shared[1], x.dims),
                       pdm |-> st.pdm, pm |-> x.pm, pnm |-> x.pnm,
                       out |-> st.out \o x.out, raised |-> FALSE])

\* the samples of a whole cycle over the responses of this cycle, run with the
\* given value of report_container_metrics (the health gauge left out)
CycleWithFlag(report) ==
    LET p == PodsWithFlag(1, report, [cdm |-> EmptyDict, pdm |-> EmptyDict, out |-> <<>>,
                                      raised |-> FALSE, asked |-> 0])
        c == ContainersWithFlag(1, report, [cdm |-> p.cdm, pdm |-> p.pdm, pm |-> OEmpty,
                                            pnm |-> OEmpty, out |-> <<>>, raised |-> FALSE])
        f == SendPodMetrics(1, c.pm, c.pdm)
        n == SendNetworkPodMetrics(1, c.pnm, f.pdm)
    IN  IF p.raised \/ ~CadvisorFetched THEN p.out
        ELSE IF c.raised THEN p.out \o c.out
        ELSE IF f.raised THEN p.out \o c.out \o f.out
        ELSE p.out \o c.out \o f.out \o n.out

\* the pod-level samples among out: name, value, type, pod and interface
PodLevelSamples(out) ==
    {<<out[i].name, out[i].value, out[i].type, out[i].dimensions.pod_name,
       out[i].dimensions.namespace,
       IF "interface" \in DOMAIN out[i].dimensions THEN out[i].dimensions.interface ELSE "">> :
        i \in {j \in 1..Len(out) : StartsWith(out[j].name, "pod.")}}

\* the cycle has ended, normally or by an exception
CycleEnded == pc \in {"done", "raised"}

\* C13: a cycle run with report_container_metrics off emits no sample whose
\* name starts with "container.", and the pod-level samples of a cycle (name,
\* value, pod, interface) are those of a cycle run over the same pod list and
\* cAdvisor documents with the flag off, and those of one run with the flag on
C13_FlagGatesOnlyContainerLevel ==
    CycleEnded =>
        /\ ~report_container_metrics =>
               \A i \in 1..Len(emitted) : ~StartsWith(emitted[i].name, "container.")
        /\ PodLevelSamples(emitted) = PodLevelSamples(CycleWithFlag(FALSE))
        /\ PodLevelSamples(emitted) = PodLevelSamples(CycleWithFlag(TRUE))

\* the pod list of this cycle has been walked to its end
PodsWalked ==
    /\ Requested("pods") /\ ~RequestFailed("pods")
    /\ pc \in {"fetch_cadvisor", "containers", "flush", "flush_network", "done"}

\* C14: a malformed pod-list item (a spec container without resources.limits or
\* resources.requests, or without an entry among the container statuses) is
\* handled per item: pod processing never raises, and once the pod list has
\* been walked every pod that is not skipped has its pod.restart_count and
\* pod.phase gauges
C14_MalformedItemHandledPerItem ==
    /\ pc = "raised" => Requested("spec")
    /\ PodsWalked =>
           \A i \in ProcessedPods :
               LET k == pods[i].metadata.name \o pods[i].metadata.namespace
               IN  /\ PodSamples(k, "pod.restart_count") # {}
                   /\ PodSamples(k, "pod.phase") # {}

\* the raw fields of a filesystem entry of the stats document, in the order
\* of the canonical names of CADVISOR_METRICS.filesystem_metrics
DocumentedFilesystemFields ==
    <<"capacity", "usage", "writes_completed", "reads_completed", "io_in_progress">>

\* the filesystem entries of the first snapshot of entry i, when the section
\* is walked
FilesystemOf(i) ==
    IF /\ FirstStats(i).has_filesystem
       /\ "filesystem" \in DOMAIN FirstStats(i)
    THEN FirstStats(i).filesystem
    ELSE <<>>

\* the gauge samples of a name emitted for entry i and a filesystem device
DeviceSamples(i, device, name) ==
    {n \in SamplesNamed(name) :
        /\ emitted[n].type = "gauge"
        /\ WithoutUnit(emitted[n].dimensions)
               = DictSet(WithoutUnit(correlated[i].dims), "device", device)}

\* C15 (filesystem section): with container metrics enabled, every documented
\* raw field present in a filesystem entry of a processed container yields
\* exactly one gauge sample under its canonical name, carrying the field's
\* value, and an absent field yields none; in particular reads_completed
\* yields container.fs.reads
C15_PresentFieldsYieldSamples ==
    report_container_metrics =>
        \A i \in 1..Len(correlated) :
            \A f \in 1..Len(FilesystemOf(i)) :
                \A j \in 1..Len(DocumentedFilesystemFields) :
                    LET item == FilesystemOf(i)[f]
                        field == DocumentedFilesystemFields[j]
                        name == "container." \o CADVISOR_METRICS.filesystem_metrics[j][2]
                        found == DeviceSamples(i, item.device, name)
                    IN  IF field \in DOMAIN item
                        THEN /\ Cardinality(found) = 1
                             /\ \A n \in found : emitted[n].value = item[field]
                        ELSE found = {}

\* at the end of a cycle, the samples are the health gauge followed by those
\* of a cycle computed from empty maps and accumulators over the configuration
\* and the responses of this cycle alone
C16_SamplesFromThisCycle ==
    CycleEnded =>
        /\ dimensions = DictDel(SetDimensions(instance), "hostname")
        /\ emitted # <<>>
        /\ emitted[1].name = "kubelet.health_status"
        /\ SubSeq(emitted, 2, Len(emitted)) = CycleWithFlag(report_container_metrics)

\* a call of check() begins with both dimension maps empty, and container
\* processing begins with both accumulators empty
C16_StartsEmpty ==
    /\ pc' = "health" =>
           /\ container_dimension_map' = EmptyDict
           /\ pod_dimensions_map' = EmptyDict
           /\ emitted' = <<>>
    /\ pc = "fetch_cadvisor" =>
           /\ pod_metrics' = OEmpty
           /\ pod_network_metrics' = OEmpty

\* C16: cycles are independent: after any sequence of earlier cycles, the
\* samples of a cycle depend only on its configuration and the responses
\* fetched in it; both dimension maps and both accumulators start empty in
\* every cycle
C16_CyclesIndependent == []C16_SamplesFromThisCycle /\ [][C16_StartsEmpty]_vars

\* a later cycle has ended after correlating an entry through the dimension
\* maps and flushing a pod-level sum
C16_Witness ==
    /\ runs >= 2
    /\ pc = "done"
    /\ CorrelatedPodKeys # {}
    /\ \E i \in 1..Len(emitted) : StartsWith(emitted[i].name, "pod.mem")

RECURSIVE RestartSum(_, _)
\* the sum of restartCount over the container statuses from status i on
RestartSum(container_statuses, i) ==
    IF i > Len(container_statuses) THEN 0
    ELSE container_statuses[i].restartCount + RestartSum(container_statuses, i + 1)

\* the pods of the list that the loop of _process_pods has gone past and that
\* carry the name and namespace of pod i
PassedLike(i) ==
    {j \in ProcessedPods :
        /\ j < pod_i
        /\ pods[j].metadata.name = pods[i].metadata.name
        /\ pods[j].metadata.namespace = pods[i].metadata.namespace}

\* the gauges of a name emitted with the pod name and namespace of pod i
GaugesOfPod(i, name) ==
    {n \in SamplesNamed(name) :
        /\ emitted[n].type = "gauge"
        /\ "pod_name" \in DOMAIN emitted[n].dimensions
        /\ "namespace" \in DOMAIN emitted[n].dimensions
        /\ emitted[n].dimensions.pod_name = pods[i].metadata.name
        /\ emitted[n].dimensions.namespace = pods[i].metadata.namespace}

\* C17: for every pod of the list with a non-empty spec container list and a
\* non-empty container-status list, once the pod loop has gone past it, exactly
\* one pod.restart_count gauge is emitted for it (one per listed pod of that
\* name and namespace) and its value is the sum of restartCount over the
\* pod's container statuses, whatever report_container_metrics is
C17_RestartCountIsSum ==
    \A i \in ProcessedPods :
        i < pod_i =>
            /\ Cardinality(GaugesOfPod(i, "pod.restart_count")) = Cardinality(PassedLike(i))
            /\ \E n \in GaugesOfPod(i, "pod.restart_count") :
                   emitted[n].value = RestartSum(pods[i].status.containerStatuses, 1)

\* C18: every emitted pod.phase gauge carries an integer in 0..4, whatever
\* phase string the pod list carries
C18_PhaseInRange ==
    \A n \in SamplesNamed("pod.phase") : emitted[n].value \in 0..4

\* the pod_keys present in an accumulator
KeysOf(accumulator) == {accumulator.keys[i] : i \in 1..Len(accumulator.keys)}

\* every pod_key present in the scalar or in the network accumulator is a key
\* of the pod-dimension map
C19_AccumulatedKeysStored ==
    \A k \in KeysOf(pod_metrics) \cup KeysOf(pod_network_metrics) :
        k \in DOMAIN pod_dimensions_map

\* neither flush fails
C19_FlushDoesNotRaise ==
    pc \in {"flush", "flush_network"} => pc' # "raised"

\* C19: at every point of container processing every pod_key of the scalar or
\* of the network accumulator is a key of the pod-dimension map of the cycle,
\* and the flush never fails on a missing pod; for keys from the alias match,
\* from the io.kubernetes.pod.* labels, and shared by two pods
C19_AccumulatorKeysKnown == []C19_AccumulatedKeysStored /\ [][C19_FlushDoesNotRaise]_vars

\* both flushes are over, with a pod_key shared by two pods of the list in
\* both accumulators, got through an alias for one entry and through the
\* labels for another
C19_Witness ==
    /\ pc = "done"
    /\ CadvisorFetched
    /\ \E i, j \in ProcessedPods :
           /\ pods[i].metadata.name # pods[j].metadata.name
           /\ PodKeyOf([pod_name |-> pods[i].metadata.name,
                        namespace |-> pods[i].metadata.namespace])
                  = PodKeyOf([pod_name |-> pods[j].metadata.name,
                              namespace |-> pods[j].metadata.namespace])
           /\ PodKeyOf([pod_name |-> pods[i].metadata.name,
                        namespace |-> pods[i].metadata.namespace])
                  \in KeysOf(pod_metrics) \cap KeysOf(pod_network_metrics)
    /\ \E a, b \in 1..Len(correlated) :
           /\ correlated[a].pod_key # <<>> /\ correlated[b].pod_key # <<>>
           /\ LookedUp(containers[a]) \in DOMAIN container_dimension_map
           /\ LookedUp(containers[b]) \notin DOMAIN container_dimension_map

====
